---- MODULE Spec2Model ----
(***************************************************************************)
(* Layout engine of plakativ (src/plakativ.py): simple_cover,              *)
(* complex_cover and Plakativ.compute_layout.                              *)
(*                                                                         *)
(* Numbers.  The program computes with Python floats.  Here a length is a  *)
(* rational <<p, q>> in lowest terms with q > 0, and +, -, *, / on them    *)
(* are exact.  math.sqrt, whose result is irrational in general, rounds    *)
(* down to a multiple of 1/SqrtRes.                                        *)
(***************************************************************************)
EXTENDS Integers, Sequences, FiniteSets, TLC

VARIABLES
    args,           \* arguments [n, m, x, y] of simple_cover / complex_cover
    cpc,            \* "args" before the two cover functions ran, "done" after
    simple,         \* what simple_cover(n, m, x, y) returned: [config, size]
    complex,        \* what complex_cover(n, m, x, y) returned (config) and how
                    \* many corner-block candidates it built (tried)
    doc,            \* width and height in pt of the page self.doc[self.pagenr]
    layout,         \* self.layout; Absent while the instance has no such attribute
    call,           \* the arguments of the last compute_layout call
    result,         \* its outcome: the exception raised, the tuple returned,
                    \* the best size of the brute-force search and the bracket
                    \* the bisection ended with
    before,         \* self.layout as the last call found it, Absent at first
    loop,           \* the bisection loop of compute_layout while it runs: where
                    \* it is (pc) and its bracket b; Absent otherwise
    outdoc          \* what render made of self.layout: the exception raised
                    \* and the output pages; Absent before render was called

vars == <<args, cpc, simple, complex, doc, layout, call, result, before, loop, outdoc>>

\* ------------------------------------------------------------------------
\* Bounds of the model
\* ------------------------------------------------------------------------
MaxPoster == 5      \* poster width and height range over 1..MaxPoster
MaxSheet == 3       \* printable sheet width and height range over 1..MaxSheet
MaxPages == 4       \* the sheet budget npages ranges over 1..MaxPages
SqrtRes == 100      \* math.sqrt rounds down to a multiple of 1/SqrtRes
MaxVals == 5        \* the colon-separated values of a border option
MaxScaled == 6      \* the width and height of a scaled poster are at most this

\* ------------------------------------------------------------------------
\* Exact rational arithmetic (Python float arithmetic, idealised)
\* ------------------------------------------------------------------------
Abs(a) == IF a < 0 THEN -a ELSE a

RECURSIVE GCD(_, _)
GCD(a, b) == IF b = 0 THEN a ELSE GCD(b, a % b)

Rat(p, q) ==
    LET s == IF q < 0 THEN -1 ELSE 1
        g == GCD(Abs(p), Abs(q))
    IN  <<(s * p) \div g, (s * q) \div g>>

Num(k) == <<k, 1>>
Zero == <<0, 1>>
\* the least common denominator of a and b
LCD(a, b) == (a[2] \div GCD(a[2], b[2])) * b[2]
\* the numerator of a over the denominator d, a multiple of a's own
Over(a, d) == a[1] * (d \div a[2])
RAdd(a, b) == Rat(Over(a, LCD(a, b)) + Over(b, LCD(a, b)), LCD(a, b))
RSub(a, b) == Rat(Over(a, LCD(a, b)) - Over(b, LCD(a, b)), LCD(a, b))
RMul(a, b) == Rat(a[1] * b[1], a[2] * b[2])
RDiv(a, b) == Rat(a[1] * b[2], a[2] * b[1])
RLt(a, b) == Over(a, LCD(a, b)) < Over(b, LCD(a, b))
RLe(a, b) == Over(a, LCD(a, b)) <= Over(b, LCD(a, b))
RGt(a, b) == RLt(b, a)
RGe(a, b) == RLe(b, a)
RHalf(a) == Rat(a[1], 2 * a[2])
RAbs(a) == <<Abs(a[1]), a[2]>>

\* len(range(k))
RangeLen(k) == IF k < 0 THEN 0 ELSE k

\* math.ceil of a rational
Ceil(a) == -((-a[1]) \div a[2])

\* ------------------------------------------------------------------------
\* simple_cover
\* ------------------------------------------------------------------------
\* the grid cells in the order of the two loops: py outer, px inner
\* a mutation of Grid: the loops nested the other way round, the cells
\* listed column by column
GridColumnMajor(pages_x, pages_y, w, h, p) ==
    [k \in 1..(RangeLen(pages_x) * RangeLen(pages_y)) |->
        LET px == (k - 1) \div pages_y
            py == (k - 1) % pages_y
        IN  <<RMul(Num(px), w), RMul(Num(py), h), p>>]

Grid(pages_x, pages_y, w, h, p) ==
    [k \in 1..(RangeLen(pages_x) * RangeLen(pages_y)) |->
        LET py == (k - 1) \div pages_x
            px == (k - 1) % pages_x
        IN  <<RMul(Num(px), w), RMul(Num(py), h), p>>]

\* a mutation of simple_cover: the two orientations compared with < , so
\* that a tie picks the rotated sheet
simple_cover_tie(n, m, x, y) ==
    LET pxp == Ceil(RDiv(n, x))
        pyp == Ceil(RDiv(m, y))
        pxl == Ceil(RDiv(n, y))
        pyl == Ceil(RDiv(m, x))
    IN  IF pxp * pyp < pxl * pyl
        THEN [config |-> Grid(pxp, pyp, x, y, TRUE),
              size |-> <<RMul(Num(pxp), x), RMul(Num(pyp), y)>>]
        ELSE [config |-> Grid(pxl, pyl, y, x, FALSE),
              size |-> <<RMul(Num(pxl), y), RMul(Num(pyl), x)>>]

\* a mutation of simple_cover: the number of columns rounded down
simple_cover_floor(n, m, x, y) ==
    LET pxp == Ceil(RDiv(n, x))
        pyp == Ceil(RDiv(m, y))
        pxl == Ceil(RDiv(n, y))
        pyl == Ceil(RDiv(m, x))
        fxp == IF pxp > 1 /\ RLt(n, RMul(Num(pxp), x)) THEN pxp - 1 ELSE pxp
    IN  IF pxp * pyp <= pxl * pyl
        THEN [config |-> Grid(fxp, pyp, x, y, TRUE),
              size |-> <<RMul(Num(fxp), x), RMul(Num(pyp), y)>>]
        ELSE [config |-> Grid(pxl, pyl, y, x, FALSE),
              size |-> <<RMul(Num(pxl), y), RMul(Num(pyl), x)>>]

simple_cover(n, m, x, y) ==
    LET pages_x_portrait == Ceil(RDiv(n, x))
        pages_y_portrait == Ceil(RDiv(m, y))
        pages_x_landscape == Ceil(RDiv(n, y))
        pages_y_landscape == Ceil(RDiv(m, x))
    IN  IF pages_x_portrait * pages_y_portrait
              <= pages_x_landscape * pages_y_landscape
        THEN [config |-> Grid(pages_x_portrait, pages_y_portrait, x, y, TRUE),
              size |-> <<RMul(Num(pages_x_portrait), x),
                         RMul(Num(pages_y_portrait), y)>>]
        ELSE [config |-> Grid(pages_x_landscape, pages_y_landscape, y, x, FALSE),
              size |-> <<RMul(Num(pages_x_landscape), y),
                         RMul(Num(pages_y_landscape), x)>>]

\* ------------------------------------------------------------------------
\* complex_cover
\* ------------------------------------------------------------------------
\* each tuple-entry represents one of the corners of the poster:
\* upper-left, upper-right, lower-right, lower-left
portrait ==
    << <<TRUE, TRUE, TRUE, FALSE>>,
       <<TRUE, TRUE, FALSE, FALSE>>,
       <<TRUE, FALSE, TRUE, FALSE>>,
       <<TRUE, FALSE, FALSE, TRUE>>,
       <<TRUE, FALSE, FALSE, FALSE>> >>

\* the lambdas X and Y of complex_cover (r and d count from 0 as in the source)
X(r, d, x, y) == IF portrait[r + 1][d + 1] THEN x ELSE y
Y(r, d, x, y) == IF portrait[r + 1][d + 1] THEN y ELSE x

\* a mutation of num_rotations: a square poster is treated like a square
\* sheet, only the first pattern is tried
num_rotations_first(n, m, x, y) ==
    IF x = y \/ n = m THEN 1 ELSE 5

num_rotations(n, m, x, y) ==
    IF x = y THEN 1 ELSE IF n = m THEN 3 ELSE 5

\* math.ceil(...) followed by "if w < 0: w = 0"
CeilClamp(a) == IF Ceil(a) < 0 THEN 0 ELSE Ceil(a)

\* one corner block: for i in range(w): for j in range(h): append(...)
Block(w, h, ox, oy, bw, bh, p) ==
    [k \in 1..(w * h) |->
        LET i == (k - 1) \div h
            j == (k - 1) % h
        IN  <<RAdd(ox, RMul(Num(i), bw)), RAdd(oy, RMul(Num(j), bh)), p>>]

\* a mutation of Shifted: the sign of the centering offset is flipped,
\* (sx - X4) / 2 for (X4 - sx) / 2
ShiftedSignFlipped(sc, X4, Y4, ox, oy) ==
    [k \in 1..Len(sc.config) |->
        <<RAdd(RAdd(ox, RHalf(RSub(sc.size[1], X4))), sc.config[k][1]),
          RAdd(RAdd(oy, RHalf(RSub(sc.size[2], Y4))), sc.config[k][2]),
          sc.config[k][3]>>]

\* the simple_cover of the hole, shifted such that it is in the center
Shifted(sc, X4, Y4, ox, oy) ==
    [k \in 1..Len(sc.config) |->
        <<RAdd(RAdd(ox, RHalf(RSub(X4, sc.size[1]))), sc.config[k][1]),
          RAdd(RAdd(oy, RHalf(RSub(Y4, sc.size[2]))), sc.config[k][2]),
          sc.config[k][3]>>]

\* the body of the innermost loop of complex_cover for one (r, w0, h0, w2, h2):
\* the derived block sizes, the four corner blocks, the hole and its fill
Candidate(n, m, x, y, r, w0, h0, w2, h2) ==
    LET X0 == X(r, 0, x, y)   Y0 == Y(r, 0, x, y)
        X1 == X(r, 1, x, y)   Y1 == Y(r, 1, x, y)
        X2 == X(r, 2, x, y)   Y2 == Y(r, 2, x, y)
        X3 == X(r, 3, x, y)   Y3 == Y(r, 3, x, y)
        \* config.append(...) of the four corner blocks, then of the fill
        Appended(corners, hole, fill) ==
            [corners |-> corners, hole |-> hole, fill |-> fill,
             newconfig |-> corners \o fill]
        \* the hole <<offsetx, offsety, X4, Y4>> filled by a centered simple_cover
        Filled(corners, hole) ==
            Appended(corners, hole,
                     IF hole = <<>> THEN <<>>
                     ELSE Shifted(simple_cover(hole[3], hole[4], x, y),
                                  hole[3], hole[4], hole[1], hole[2]))
        \* "if X4 > 0 and Y4 > 0" for the two candidate holes
        Hole(w1, h3, w3, h1, X4a, Y4a, X4b, Y4b) ==
            IF RGt(X4a, Zero) /\ RGt(Y4a, Zero)
            THEN <<RMul(Num(w0), X0), RMul(Num(h1), Y1), X4a, Y4a>>
            ELSE IF RGt(X4b, Zero) /\ RGt(Y4b, Zero)
            THEN <<RMul(Num(w3), X3), RMul(Num(h0), Y0), X4b, Y4b>>
            ELSE <<>>
        Blocks(w1, h3, w3, h1) ==
            Filled(Block(w0, h0, Zero, Zero, X0, Y0, portrait[r + 1][1])
                   \o Block(w1, h1, RSub(n, RMul(Num(w1), X1)), Zero, X1, Y1,
                            portrait[r + 1][2])
                   \o Block(w2, h2, RSub(n, RMul(Num(w2), X2)),
                            RSub(m, RMul(Num(h2), Y2)), X2, Y2, portrait[r + 1][3])
                   \o Block(w3, h3, Zero, RSub(m, RMul(Num(h3), Y3)), X3, Y3,
                            portrait[r + 1][4]),
                   Hole(w1, h3, w3, h1,
                        RSub(RSub(n, RMul(Num(w0), X0)), RMul(Num(w2), X2)),
                        RSub(RSub(m, RMul(Num(h1), Y1)), RMul(Num(h3), Y3)),
                        RSub(RSub(n, RMul(Num(w1), X1)), RMul(Num(w3), X3)),
                        RSub(RSub(m, RMul(Num(h0), Y0)), RMul(Num(h2), Y2))))
    IN  Blocks(CeilClamp(RDiv(RSub(n, RMul(Num(w0), X0)), X1)),
               CeilClamp(RDiv(RSub(m, RMul(Num(h0), Y0)), Y3)),
               CeilClamp(RDiv(RSub(n, RMul(Num(w2), X2)), X3)),
               CeilClamp(RDiv(RSub(m, RMul(Num(h2), Y2)), Y1)))

\* the (w0, h0, w2, h2) of rotation r in the order of the four nested loops
RotKeys(n, m, x, y, r) ==
    LET a == Ceil(RDiv(n, X(r, 0, x, y))) - 1
        b == Ceil(RDiv(m, Y(r, 0, x, y))) - 1
        c == Ceil(RDiv(n, X(r, 2, x, y))) - 1
        d == Ceil(RDiv(m, Y(r, 2, x, y))) - 1
    IN  [k \in 1..(RangeLen(a) * RangeLen(b) * RangeLen(c) * RangeLen(d)) |->
            <<r,
              ((k - 1) \div (b * c * d)) + 1,
              (((k - 1) \div (c * d)) % b) + 1,
              (((k - 1) \div d) % c) + 1,
              ((k - 1) % d) + 1>>]

RECURSIVE Keys(_, _, _, _, _, _)
Keys(n, m, x, y, r, num) ==
    IF r >= num THEN <<>>
    ELSE RotKeys(n, m, x, y, r) \o Keys(n, m, x, y, r + 1, num)

\* the newconfig of every candidate, as pairs <<position in keys, newconfig>>
Built(n, m, x, y, keys) ==
    {<<i, Candidate(n, m, x, y, keys[i][1], keys[i][2], keys[i][3],
                    keys[i][4], keys[i][5]).newconfig>> : i \in 1..Len(keys)}

\* the earliest pair of a non-empty set of pairs
Earliest(T) == CHOOSE p \in T : \A q \in T : p[1] <= q[1]

\* a mutation of Search: every candidate replaces the best one found so far
\* (the test "total < cover" is lost)
SearchKeepLast(n, m, x, y, keys, minimum, cover, config) ==
    LET Pick(T) ==
            LET hits == {p \in T : Len(p[2]) = minimum}
            IN  IF hits # {}
                THEN [config |-> Earliest(hits)[2], tried |-> Earliest(hits)[1]]
                ELSE IF T # {}
                THEN [config |-> (CHOOSE p \in T : p[1] = Len(keys))[2],
                      tried |-> Len(keys)]
                ELSE [config |-> config, tried |-> 0]
    IN  Pick(Built(n, m, x, y, keys))

\* the loops of complex_cover over the candidates keys, begun with the
\* cover and config of simple_cover.  The loops return the first candidate
\* whose total equals minimum; if there is none they end with the earliest
\* candidate of the smallest total below cover ("if total < cover" replaces
\* the best one only by a strictly smaller one), or else with config.
\* tried counts the candidates that were built.
Search(n, m, x, y, keys, minimum, cover, config) ==
    LET Pick(T) ==
            LET hits == {p \in T : Len(p[2]) = minimum}
                better == {p \in T : Len(p[2]) < cover}
                least == {p \in better : \A q \in better : Len(p[2]) <= Len(q[2])}
            IN  IF hits # {}
                THEN [config |-> Earliest(hits)[2], tried |-> Earliest(hits)[1]]
                ELSE IF better # {}
                THEN [config |-> Earliest(least)[2], tried |-> Len(keys)]
                ELSE [config |-> config, tried |-> Len(keys)]
    IN  Pick(Built(n, m, x, y, keys))

\* a mutation of complex_search: the early return "if cover == minimum" is lost
complex_search_always(n, m, x, y) ==
    LET From(minimum, config) ==
            Search(n, m, x, y, Keys(n, m, x, y, 0, num_rotations(n, m, x, y)),
                   minimum, Len(config), config)
    IN  From(Ceil(RDiv(RMul(n, m), RMul(x, y))), simple_cover(n, m, x, y).config)

complex_search(n, m, x, y) ==
    LET From(minimum, config) ==
            LET cover == Len(config)
            IN  IF cover = minimum THEN [config |-> config, tried |-> 0]
                ELSE Search(n, m, x, y,
                            Keys(n, m, x, y, 0, num_rotations(n, m, x, y)),
                            minimum, cover, config)
    IN  From(Ceil(RDiv(RMul(n, m), RMul(x, y))), simple_cover(n, m, x, y).config)

\* complex_cover without "if x == y" and "elif n == m": all five patterns
\* of portrait are enumerated
complex_search_all(n, m, x, y) ==
    LET From(minimum, config) ==
            LET cover == Len(config)
            IN  IF cover = minimum THEN [config |-> config, tried |-> 0]
                ELSE Search(n, m, x, y, Keys(n, m, x, y, 0, Len(portrait)),
                            minimum, cover, config)
    IN  From(Ceil(RDiv(RMul(n, m), RMul(x, y))), simple_cover(n, m, x, y).config)

\* a mutation of complex_cover: the cover of simple_cover is returned
complex_cover_grid(n, m, x, y) == simple_cover(n, m, x, y).config

complex_cover(n, m, x, y) == complex_search(n, m, x, y).config

\* ------------------------------------------------------------------------
\* Unit conversion and math.sqrt
\* ------------------------------------------------------------------------
mm_to_pt(length) == RDiv(RMul(Num(72), length), <<127, 5>>)
pt_to_mm(length) == RDiv(RMul(<<127, 5>>, length), Num(72))

\* floor(a * b / c) for a, b >= 0 and c > 0, the product kept small
MulDivFloor(a, b, c) == (a \div c) * b + ((a % c) * b) \div c

\* the largest r in lo..hi with r * r <= v
RECURSIVE IsqrtBetween(_, _, _)
IsqrtBetween(v, lo, hi) ==
    IF lo >= hi THEN lo
    ELSE LET mid == (lo + hi + 1) \div 2
         IN  IF mid <= v \div mid
             THEN IsqrtBetween(v, mid, hi)
             ELSE IsqrtBetween(v, lo, mid - 1)

\* math.sqrt: the root of a >= 0, rounded down to a multiple of 1/SqrtRes
Sqrt(a) ==
    LET v == MulDivFloor(a[1], SqrtRes * SqrtRes, a[2])
    IN  Rat(IsqrtBetween(v, 0, v), SqrtRes)

\* ------------------------------------------------------------------------
\* Plakativ.compute_layout: the poster size of the three modes
\* ------------------------------------------------------------------------
\* Python's None: as an exception name, as a size or tuple, as an object
None == "None"
NoSize == <<>>
Absent == [absent |-> TRUE]

\* a page of the source's aspect ratio as wide as the box, or as high as the
\* box if that is too high (the pattern of lines 378-382, 384-388, 412-416
\* and 427-431)
FitInto(width, height, inpage_width, inpage_height) ==
    LET poster_width == width
        poster_height == RDiv(RMul(poster_width, inpage_height), inpage_width)
    IN  IF RGt(poster_height, height)
        THEN <<RDiv(RMul(height, inpage_width), inpage_height), height>>
        ELSE <<poster_width, poster_height>>

Area(p) == RMul(p[1], p[2])

\* a mutation of FitSize: the fit of the smaller area is picked
FitSizeSmaller(postersize, inpage_width, inpage_height) ==
    LET portrait_fit == FitInto(postersize[1], postersize[2],
                                inpage_width, inpage_height)
        landscape_fit == FitInto(postersize[2], postersize[1],
                                 inpage_width, inpage_height)
    IN  IF RLt(Area(portrait_fit), Area(landscape_fit))
        THEN portrait_fit
        ELSE landscape_fit

\* mode == "size"
FitSize(postersize, inpage_width, inpage_height) ==
    LET portrait_fit == FitInto(postersize[1], postersize[2],
                                inpage_width, inpage_height)
        landscape_fit == FitInto(postersize[2], postersize[1],
                                 inpage_width, inpage_height)
    IN  IF RGt(Area(portrait_fit), Area(landscape_fit))
        THEN portrait_fit
        ELSE landscape_fit

\* a mutation of MultSize: the height is computed with the ratio of the width
MultSizeSameRatio(mult, inpage_width, inpage_height) ==
    LET area == RMul(RMul(inpage_width, inpage_height), mult)
    IN  <<Sqrt(RDiv(RMul(area, inpage_width), inpage_height)),
          Sqrt(RDiv(RMul(area, inpage_width), inpage_height))>>

\* mode == "mult"
MultSize(mult, inpage_width, inpage_height) ==
    LET area == RMul(RMul(inpage_width, inpage_height), mult)
    IN  <<Sqrt(RDiv(RMul(area, inpage_width), inpage_height)),
          Sqrt(RDiv(RMul(area, inpage_height), inpage_width))>>

\* mode == "npages": the fits that the two loops over x and y compare, as
\* pairs <<position, fit>> in the order of the comparisons: for each (x, y)
\* with x * y <= npages the portrait fit, then the landscape fit
Fits(npages, printable_width, printable_height, inpage_width, inpage_height) ==
    {<<k, LET x == (((k - 1) \div 2) \div npages) + 1
              y == (((k - 1) \div 2) % npages) + 1
          IN  IF (k - 1) % 2 = 0
              THEN FitInto(RMul(Num(x), printable_width),
                           RMul(Num(y), printable_height),
                           inpage_width, inpage_height)
              ELSE FitInto(RMul(Num(x), printable_height),
                           RMul(Num(y), printable_width),
                           inpage_width, inpage_height)>> :
        k \in {c \in 1..(2 * RangeLen(npages) * RangeLen(npages)) :
                  ((((c - 1) \div 2) \div npages) + 1)
                      * ((((c - 1) \div 2) % npages) + 1) <= npages}}

\* a mutation of BruteForce: the first fit of positive area is kept
BruteForceFirst(npages, printable_width, printable_height, inpage_width, inpage_height) ==
    LET Best(F) ==
            LET positive == {f \in F : RGt(Area(f[2]), Zero)}
            IN  IF positive = {} THEN NoSize
                ELSE (CHOOSE f \in positive : \A g \in positive : f[1] <= g[1])[2]
    IN  Best(Fits(npages, printable_width, printable_height,
                  inpage_width, inpage_height))

\* a mutation of BruteForce: best starts as one printable sheet, not as None
BruteForceFromSheet(npages, printable_width, printable_height, inpage_width, inpage_height) ==
    LET Best(F) ==
            LET positive == {f \in F : RGt(Area(f[2]), Zero)}
                largest == {f \in positive :
                               \A g \in positive : RLe(Area(g[2]), Area(f[2]))}
            IN  IF positive = {} THEN <<printable_width, printable_height>>
                ELSE (CHOOSE f \in largest : \A g \in largest : f[1] <= g[1])[2]
    IN  Best(Fits(npages, printable_width, printable_height,
                  inpage_width, inpage_height))

\* best after the loops: "if area > best_area" with best_area = 0 and
\* best = None at the start keeps the first fit of the largest area, if that
\* area is positive
BruteForce(npages, printable_width, printable_height, inpage_width, inpage_height) ==
    LET Best(F) ==
            LET positive == {f \in F : RGt(Area(f[2]), Zero)}
                largest == {f \in positive :
                               \A g \in positive : RLe(Area(g[2]), Area(f[2]))}
            IN  IF positive = {} THEN NoSize
                ELSE (CHOOSE f \in largest : \A g \in largest : f[1] <= g[1])[2]
    IN  Best(Fits(npages, printable_width, printable_height,
                  inpage_width, inpage_height))

\* the 0.9999 of "min_area_mult *= 0.9999" and the 0.001 of the loop's exit
SafetyFactor == <<9999, 10000>>
Tolerance == <<1, 1000>>

\* (min_area_mult + max_area_mult) / 2; the sum of two floats is a float
\* again: the midpoint is rounded down to the precision of SafetyFactor
Midpoint(min_area_mult, max_area_mult) ==
    LET mid == RHalf(RAdd(min_area_mult, max_area_mult))
    IN  Rat(MulDivFloor(mid[1], SafetyFactor[2], mid[2]), SafetyFactor[2])

\* the poster of area multiplier area_mult
ScaledPage(area_mult, inpage_width, inpage_height) ==
    <<RMul(Sqrt(area_mult), inpage_width), RMul(Sqrt(area_mult), inpage_height)>>

\* a mutation of BisectStep: the sheet count is compared with npages + 1
BisectStepOffByOne(b, npages, printable_width, printable_height, inpage_width, inpage_height) ==
    LET Narrow(new_area_mult, new_area_npages) ==
            IF new_area_npages > npages + 1
            THEN [min_area_mult |-> b.min_area_mult, max_area_mult |-> new_area_mult,
                  steps |-> b.steps + 1, moved |-> b.moved]
            ELSE [min_area_mult |-> new_area_mult, max_area_mult |-> b.max_area_mult,
                  steps |-> b.steps + 1, moved |-> TRUE]
        Count(new_area_mult, page) ==
            Narrow(new_area_mult,
                   Len(complex_cover(page[1], page[2],
                                     printable_width, printable_height)))
        Scale(new_area_mult) ==
            Count(new_area_mult,
                  ScaledPage(new_area_mult, inpage_width, inpage_height))
    IN  Scale(Midpoint(b.min_area_mult, b.max_area_mult))

\* a mutation of BisectStep: the ends of the bracket are swapped, the lower
\* end moves when the midpoint needs more than npages sheets
BisectStepSwapped(b, npages, printable_width, printable_height, inpage_width, inpage_height) ==
    LET Narrow(new_area_mult, new_area_npages) ==
            IF new_area_npages <= npages
            THEN [min_area_mult |-> b.min_area_mult, max_area_mult |-> new_area_mult,
                  steps |-> b.steps + 1, moved |-> b.moved]
            ELSE [min_area_mult |-> new_area_mult, max_area_mult |-> b.max_area_mult,
                  steps |-> b.steps + 1, moved |-> TRUE]
        Count(new_area_mult, page) ==
            Narrow(new_area_mult,
                   Len(complex_cover(page[1], page[2],
                                     printable_width, printable_height)))
        Scale(new_area_mult) ==
            Count(new_area_mult,
                  ScaledPage(new_area_mult, inpage_width, inpage_height))
    IN  Scale(Midpoint(b.min_area_mult, b.max_area_mult))

\* one iteration of the "while True" loop after its exit test
BisectStep(b, npages, printable_width, printable_height, inpage_width, inpage_height) ==
    LET Narrow(new_area_mult, new_area_npages) ==
            IF new_area_npages > npages
            THEN [min_area_mult |-> b.min_area_mult, max_area_mult |-> new_area_mult,
                  steps |-> b.steps + 1, moved |-> b.moved]
            ELSE [min_area_mult |-> new_area_mult, max_area_mult |-> b.max_area_mult,
                  steps |-> b.steps + 1, moved |-> TRUE]
        Count(new_area_mult, page) ==
            Narrow(new_area_mult,
                   Len(complex_cover(page[1], page[2],
                                     printable_width, printable_height)))
        Scale(new_area_mult) ==
            Count(new_area_mult,
                  ScaledPage(new_area_mult, inpage_width, inpage_height))
    IN  Scale(Midpoint(b.min_area_mult, b.max_area_mult))

BisectDone(b) == RLt(RAbs(RSub(b.min_area_mult, b.max_area_mult)), Tolerance)

RECURSIVE Bisect(_, _, _, _, _, _)
Bisect(b, npages, printable_width, printable_height, inpage_width, inpage_height) ==
    IF BisectDone(b) THEN b
    ELSE Bisect(BisectStep(b, npages, printable_width, printable_height,
                           inpage_width, inpage_height),
                npages, printable_width, printable_height,
                inpage_width, inpage_height)

\* a mutation of BisectInit: the safety factor is 0.999 instead of 0.9999
BisectInitLooser(best, npages, printable_width, printable_height, inpage_width, inpage_height) ==
    [min_area_mult |->
        RMul(RDiv(Area(best), RMul(inpage_width, inpage_height)), <<999, 1000>>),
     max_area_mult |->
        RDiv(RMul(Num(npages), RMul(printable_width, printable_height)),
             RMul(inpage_width, inpage_height)),
     steps |-> 0, moved |-> FALSE]

\* the bracket the bisection starts from
BisectInit(best, npages, printable_width, printable_height, inpage_width, inpage_height) ==
    [min_area_mult |->
        RMul(RDiv(Area(best), RMul(inpage_width, inpage_height)), SafetyFactor),
     max_area_mult |->
        RDiv(RMul(Num(npages), RMul(printable_width, printable_height)),
             RMul(inpage_width, inpage_height)),
     steps |-> 0, moved |-> FALSE]

\* ------------------------------------------------------------------------
\* Plakativ.compute_layout: the layout
\* ------------------------------------------------------------------------
RMaxOf(S) == CHOOSE a \in S : \A b \in S : RLe(b, a)

\* a mutation of GridLayout: the placements are emitted column by column
GridLayoutByColumn(poster_width, poster_height, printable_width, printable_height, border) ==
    LET border_top == border[1]
        border_right == border[2]
        border_bottom == border[3]
        border_left == border[4]
        Placed(is_portrait, pages_x, pages_y, w, h, surplus_x, surplus_y) ==
            [overallsize |->
                IF is_portrait
                THEN <<RAdd(RMul(Num(pages_x), w), RAdd(border_right, border_left)),
                       RAdd(RMul(Num(pages_y), h), RAdd(border_top, border_bottom))>>
                ELSE <<RAdd(RMul(Num(pages_x), w), RAdd(border_top, border_bottom)),
                       RAdd(RMul(Num(pages_y), h), RAdd(border_right, border_left))>>,
             posterpos |->
                IF is_portrait
                THEN <<RAdd(border_left, surplus_x), RAdd(border_top, surplus_y)>>
                ELSE <<RAdd(border_bottom, surplus_x), RAdd(border_right, surplus_y)>>,
             positions |->
                [k \in 1..(RangeLen(pages_x) * RangeLen(pages_y)) |->
                    LET x == (k - 1) \div pages_y
                        y == (k - 1) % pages_y
                    IN  <<RSub(RMul(Num(x), w), surplus_x),
                          RSub(RMul(Num(y), h), surplus_y),
                          is_portrait>>]]
        Sized(is_portrait, pages_x, pages_y, w, h) ==
            Placed(is_portrait, pages_x, pages_y, w, h,
                   RHalf(RSub(RMul(Num(pages_x), w), poster_width)),
                   RHalf(RSub(RMul(Num(pages_y), h), poster_height)))
        Oriented(is_portrait, pages_x_portrait, pages_y_portrait, pages_x_landscape, pages_y_landscape) ==
            IF is_portrait
            THEN Sized(TRUE, pages_x_portrait, pages_y_portrait,
                       printable_width, printable_height)
            ELSE Sized(FALSE, pages_x_landscape, pages_y_landscape,
                       printable_height, printable_width)
        Counted(pages_x_portrait, pages_y_portrait, pages_x_landscape, pages_y_landscape) ==
            Oriented(~(pages_x_portrait * pages_y_portrait
                          > pages_x_landscape * pages_y_landscape),
                     pages_x_portrait, pages_y_portrait,
                     pages_x_landscape, pages_y_landscape)
    IN  Counted(Ceil(RDiv(poster_width, printable_width)),
                Ceil(RDiv(poster_height, printable_height)),
                Ceil(RDiv(poster_width, printable_height)),
                Ceil(RDiv(poster_height, printable_width)))

\* a mutation of GridLayout: the poster is placed behind border_left and
\* border_top also when the sheets are rotated
GridLayoutUprightBorders(poster_width, poster_height, printable_width, printable_height, border) ==
    LET border_top == border[1]
        border_right == border[2]
        border_bottom == border[3]
        border_left == border[4]
        Placed(is_portrait, pages_x, pages_y, w, h, surplus_x, surplus_y) ==
            [overallsize |->
                IF is_portrait
                THEN <<RAdd(RMul(Num(pages_x), w), RAdd(border_right, border_left)),
                       RAdd(RMul(Num(pages_y), h), RAdd(border_top, border_bottom))>>
                ELSE <<RAdd(RMul(Num(pages_x), w), RAdd(border_top, border_bottom)),
                       RAdd(RMul(Num(pages_y), h), RAdd(border_right, border_left))>>,
             posterpos |->
                IF is_portrait
                THEN <<RAdd(border_left, surplus_x), RAdd(border_top, surplus_y)>>
                ELSE <<RAdd(border_left, surplus_x), RAdd(border_top, surplus_y)>>,
             positions |->
                [k \in 1..(RangeLen(pages_x) * RangeLen(pages_y)) |->
                    LET y == (k - 1) \div pages_x
                        x == (k - 1) % pages_x
                    IN  <<RSub(RMul(Num(x), w), surplus_x),
                          RSub(RMul(Num(y), h), surplus_y),
                          is_portrait>>]]
        Sized(is_portrait, pages_x, pages_y, w, h) ==
            Placed(is_portrait, pages_x, pages_y, w, h,
                   RHalf(RSub(RMul(Num(pages_x), w), poster_width)),
                   RHalf(RSub(RMul(Num(pages_y), h), poster_height)))
        Oriented(is_portrait, pages_x_portrait, pages_y_portrait, pages_x_landscape, pages_y_landscape) ==
            IF is_portrait
            THEN Sized(TRUE, pages_x_portrait, pages_y_portrait,
                       printable_width, printable_height)
            ELSE Sized(FALSE, pages_x_landscape, pages_y_landscape,
                       printable_height, printable_width)
        Counted(pages_x_portrait, pages_y_portrait, pages_x_landscape, pages_y_landscape) ==
            Oriented(~(pages_x_portrait * pages_y_portrait
                          > pages_x_landscape * pages_y_landscape),
                     pages_x_portrait, pages_y_portrait,
                     pages_x_landscape, pages_y_landscape)
    IN  Counted(Ceil(RDiv(poster_width, printable_width)),
                Ceil(RDiv(poster_height, printable_height)),
                Ceil(RDiv(poster_width, printable_height)),
                Ceil(RDiv(poster_height, printable_width)))

\* lines 497-560: the grid that compute_layout builds itself
GridLayout(poster_width, poster_height, printable_width, printable_height, border) ==
    LET border_top == border[1]
        border_right == border[2]
        border_bottom == border[3]
        border_left == border[4]
        Placed(is_portrait, pages_x, pages_y, w, h, surplus_x, surplus_y) ==
            [overallsize |->
                IF is_portrait
                THEN <<RAdd(RMul(Num(pages_x), w), RAdd(border_right, border_left)),
                       RAdd(RMul(Num(pages_y), h), RAdd(border_top, border_bottom))>>
                ELSE <<RAdd(RMul(Num(pages_x), w), RAdd(border_top, border_bottom)),
                       RAdd(RMul(Num(pages_y), h), RAdd(border_right, border_left))>>,
             posterpos |->
                IF is_portrait
                THEN <<RAdd(border_left, surplus_x), RAdd(border_top, surplus_y)>>
                ELSE <<RAdd(border_bottom, surplus_x), RAdd(border_right, surplus_y)>>,
             positions |->
                [k \in 1..(RangeLen(pages_x) * RangeLen(pages_y)) |->
                    LET y == (k - 1) \div pages_x
                        x == (k - 1) % pages_x
                    IN  <<RSub(RMul(Num(x), w), surplus_x),
                          RSub(RMul(Num(y), h), surplus_y),
                          is_portrait>>]]
        Sized(is_portrait, pages_x, pages_y, w, h) ==
            Placed(is_portrait, pages_x, pages_y, w, h,
                   RHalf(RSub(RMul(Num(pages_x), w), poster_width)),
                   RHalf(RSub(RMul(Num(pages_y), h), poster_height)))
        Oriented(is_portrait, pages_x_portrait, pages_y_portrait, pages_x_landscape, pages_y_landscape) ==
            IF is_portrait
            THEN Sized(TRUE, pages_x_portrait, pages_y_portrait,
                       printable_width, printable_height)
            ELSE Sized(FALSE, pages_x_landscape, pages_y_landscape,
                       printable_height, printable_width)
        Counted(pages_x_portrait, pages_y_portrait, pages_x_landscape, pages_y_landscape) ==
            Oriented(~(pages_x_portrait * pages_y_portrait
                          > pages_x_landscape * pages_y_landscape),
                     pages_x_portrait, pages_y_portrait,
                     pages_x_landscape, pages_y_landscape)
    IN  Counted(Ceil(RDiv(poster_width, printable_width)),
                Ceil(RDiv(poster_height, printable_height)),
                Ceil(RDiv(poster_width, printable_height)),
                Ceil(RDiv(poster_height, printable_width)))

\* lines 572-605: the borders around the poster, the largest in each direction
ComplexLayout(positions, poster_width, poster_height, printable_width, printable_height, border) ==
    LET border_top == border[1]
        border_right == border[2]
        border_bottom == border[3]
        border_left == border[4]
        P == {positions[k] : k \in 1..Len(positions)}
        top(q) == RSub(q[2], IF q[3] THEN border_top ELSE border_left)
        right(q) ==
            IF q[3]
            THEN RSub(RAdd(RAdd(q[1], printable_width), border_right), poster_width)
            ELSE RSub(RAdd(RAdd(q[1], printable_height), border_top), poster_width)
        bottom(q) ==
            IF q[3]
            THEN RSub(RAdd(RAdd(q[2], printable_height), border_bottom), poster_height)
            ELSE RSub(RAdd(RAdd(q[2], printable_width), border_right), poster_height)
        left(q) == RSub(q[1], IF q[3] THEN border_left ELSE border_bottom)
        Around(poster_top, poster_right, poster_bottom, poster_left) ==
            [overallsize |->
                <<RAdd(RAdd(poster_width, poster_left), poster_right),
                  RAdd(RAdd(poster_height, poster_top), poster_bottom)>>,
             posterpos |-> <<poster_left, poster_top>>,
             positions |-> positions]
    IN  Around(RMaxOf({Zero} \cup {RSub(Zero, top(q)) : q \in P}),
               RMaxOf({Zero} \cup {right(q) : q \in P}),
               RMaxOf({Zero} \cup {bottom(q) : q \in P}),
               RMaxOf({Zero} \cup {RSub(Zero, left(q)) : q \in P}))

\* a mutation of Assemble: the placements of complex_cover replace the grid
\* also when they are just as many, "<=" for "<" in line 567
AssembleNotWorse(base, poster_width, poster_height, printable_width, printable_height, border, strategy) ==
    LET Stored(chosen) ==
            [output_pagesize |-> base.output_pagesize,
             border_top |-> base.border_top,
             border_right |-> base.border_right,
             border_bottom |-> base.border_bottom,
             border_left |-> base.border_left,
             overallsize |-> chosen.overallsize,
             posterpos |-> chosen.posterpos,
             positions |-> chosen.positions,
             postersize |-> <<poster_width, poster_height>>]
        Chosen(grid, positions_complex) ==
            IF strategy = "complex" /\ Len(positions_complex) <= Len(grid.positions)
            THEN ComplexLayout(positions_complex, poster_width, poster_height,
                               printable_width, printable_height, border)
            ELSE grid
    IN  Stored(Chosen(GridLayout(poster_width, poster_height,
                                 printable_width, printable_height, border),
                      complex_cover(poster_width, poster_height,
                                    printable_width, printable_height)))

\* lines 497-608: self.layout for the poster size found
Assemble(base, poster_width, poster_height, printable_width, printable_height, border, strategy) ==
    LET Stored(chosen) ==
            [output_pagesize |-> base.output_pagesize,
             border_top |-> base.border_top,
             border_right |-> base.border_right,
             border_bottom |-> base.border_bottom,
             border_left |-> base.border_left,
             overallsize |-> chosen.overallsize,
             posterpos |-> chosen.posterpos,
             positions |-> chosen.positions,
             postersize |-> <<poster_width, poster_height>>]
        Chosen(grid, positions_complex) ==
            IF strategy = "complex" /\ Len(positions_complex) < Len(grid.positions)
            THEN ComplexLayout(positions_complex, poster_width, poster_height,
                               printable_width, printable_height, border)
            ELSE grid
    IN  Stored(Chosen(GridLayout(poster_width, poster_height,
                                 printable_width, printable_height, border),
                      complex_cover(poster_width, poster_height,
                                    printable_width, printable_height)))

\* lines 375-495: the poster size of the mode, or the exception raised
\* (math.sqrt raises ValueError on the negative max_area_mult of line 467).
\* bisect records the bracket the bisection of mode "npages" ended with.
Resolve(mode, postersize, mult, npages, printable_width, printable_height, inpage_width, inpage_height, strategy) ==
    IF mode = "size"
    THEN [raised |-> None, bisect |-> Absent, best |-> NoSize,
          poster |-> FitSize(postersize, inpage_width, inpage_height)]
    ELSE IF mode = "mult"
    THEN IF RLt(mult, Zero)
         THEN [raised |-> "ValueError", bisect |-> Absent, best |-> NoSize,
               poster |-> NoSize]
         ELSE [raised |-> None, bisect |-> Absent, best |-> NoSize,
               poster |-> MultSize(mult, inpage_width, inpage_height)]
    ELSE IF mode = "npages"
    THEN LET Bisected(best, b) ==
                 [raised |-> None, bisect |-> b, best |-> best,
                  poster |-> <<RMul(inpage_width, Sqrt(b.min_area_mult)),
                               RMul(inpage_height, Sqrt(b.min_area_mult))>>]
             Started(best, b) ==
                 IF RLt(b.max_area_mult, Zero)
                 THEN [raised |-> "ValueError", bisect |-> Absent, best |-> NoSize,
                       poster |-> NoSize]
                 ELSE Bisected(best,
                               Bisect(b, npages, printable_width, printable_height,
                                      inpage_width, inpage_height))
             Found(best) ==
                 IF best = NoSize
                 THEN [raised |-> "TypeError", bisect |-> Absent, best |-> NoSize,
                       poster |-> NoSize]
                 ELSE IF strategy = "complex"
                 THEN Started(best,
                              BisectInit(best, npages, printable_width,
                                         printable_height, inpage_width,
                                         inpage_height))
                 ELSE [raised |-> None, bisect |-> Absent, best |-> best,
                       poster |-> best]
         IN  Found(BruteForce(npages, printable_width, printable_height,
                              inpage_width, inpage_height))
    ELSE [raised |-> "Exception", bisect |-> Absent, best |-> NoSize, poster |-> NoSize]

\* a mutation of AreaMult: the poster area is divided by inpage_width twice
AreaMultByWidth(poster_width, poster_height, inpage_width, inpage_height) ==
    RDiv(RMul(poster_width, poster_height), RMul(inpage_width, inpage_width))

\* a mutation of AreaMult: the linear scale of the poster instead of the
\* ratio of the areas
AreaMultLinear(poster_width, poster_height, inpage_width, inpage_height) ==
    RDiv(poster_width, inpage_width)

\* lines 611 and 618: mult = (poster_width * poster_height) /
\* (inpage_width * inpage_height)
AreaMult(poster_width, poster_height, inpage_width, inpage_height) ==
    RDiv(RMul(poster_width, poster_height), RMul(inpage_width, inpage_height))

\* a mutation of SheetCount: the placements are counted in every mode
SheetCountPlaced(mode, npages, positions) == Len(positions)

\* lines 611, 614 and 621: the npages of the returned triple, the number of
\* placements in modes "size" and "mult", the argument in mode "npages"
SheetCount(mode, npages, positions) ==
    IF mode = "npages" THEN npages ELSE Len(positions)

\* Plakativ.compute_layout on the source page inpage (its size in pt):
\* the exception raised (or None), self.layout as the call leaves it, the
\* tuple returned, and the bracket of the bisection
compute_layout(inpage, mode, postersize, mult, npages, pagesize, border, strategy) ==
    LET base == [output_pagesize |-> pagesize,
                 border_top |-> border[1],
                 border_right |-> border[2],
                 border_bottom |-> border[3],
                 border_left |-> border[4]]
        printable_width == RSub(pagesize[1], RAdd(border[4], border[2]))
        printable_height == RSub(pagesize[2], RAdd(border[1], border[3]))
        inpage_width == pt_to_mm(inpage[1])
        inpage_height == pt_to_mm(inpage[2])
        Returning(res, layout_done, area_mult) ==
            [raised |-> None, layout |-> layout_done,
             ret |-> IF mode = "size"
                     THEN <<postersize, area_mult,
                            SheetCount(mode, npages, layout_done.positions)>>
                     ELSE IF mode = "mult"
                     THEN <<res.poster, mult,
                            SheetCount(mode, npages, layout_done.positions)>>
                     ELSE <<res.poster, area_mult,
                            SheetCount(mode, npages, layout_done.positions)>>,
             bisect |-> res.bisect, best |-> res.best]
        Resolved(res) ==
            IF res.raised # None
            THEN [raised |-> res.raised, layout |-> base, ret |-> NoSize,
                  bisect |-> Absent, best |-> NoSize]
            ELSE IF printable_width = Zero \/ printable_height = Zero
            THEN [raised |-> "ZeroDivisionError", layout |-> base, ret |-> NoSize,
                  bisect |-> Absent, best |-> NoSize]
            ELSE Returning(res,
                           Assemble(base, res.poster[1], res.poster[2],
                                    printable_width, printable_height,
                                    border, strategy),
                           AreaMult(res.poster[1], res.poster[2],
                                    inpage_width, inpage_height))
    IN  Resolved(Resolve(mode, postersize, mult, npages, printable_width,
                         printable_height, inpage_width, inpage_height, strategy))

\* ------------------------------------------------------------------------
\* A Plakativ instance and the calls of compute_layout on it
\* ------------------------------------------------------------------------
DocPages ==
    {<<mm_to_pt(Num(2)), mm_to_pt(Num(3))>>,
     <<mm_to_pt(Num(3)), mm_to_pt(Num(2))>>,
     <<mm_to_pt(Num(2)), mm_to_pt(Num(2))>>}

PageSizes == {<<Num(2), Num(3)>>, <<Num(3), Num(2)>>, <<Num(2), Num(2)>>}
Borders == {<<Zero, Zero, Zero, Zero>>, <<<<1, 2>>, <<1, 4>>, <<1, 2>>, <<3, 4>>>>}
Strategies == {"simple", "complex"}
Boxes == {<<Num(3), Num(4)>>, <<Num(4), Num(3)>>, <<Num(3), Num(3)>>, <<Num(2), Num(5)>>, <<Num(5), Num(2)>>, <<Num(4), Num(6)>>}
Factors == {Num(1), Num(2), <<9, 4>>, <<1, 2>>, Num(3), <<1, 4>>}

\* the arguments of a call; an argument the mode does not read is NoSize or 0
CallArgs ==
    [mode : {"size"}, postersize : Boxes, mult : {NoSize}, npages : {0},
     pagesize : PageSizes, border : Borders, strategy : Strategies]
    \cup
    [mode : {"mult"}, postersize : {NoSize}, mult : Factors, npages : {0},
     pagesize : PageSizes, border : Borders, strategy : Strategies]
    \cup
    [mode : {"npages"}, postersize : {NoSize}, mult : {NoSize}, npages : 1..MaxPages,
     pagesize : PageSizes, border : Borders, strategy : Strategies]

\* the scenarios of plakativ_test.py and test.py: an A4 source, portrait or
\* landscape, fitted into A3 or A2 on A4 sheets with a 20 mm border
ScenarioPages ==
    {<<mm_to_pt(Num(210)), mm_to_pt(Num(297))>>,
     <<mm_to_pt(Num(297)), mm_to_pt(Num(210))>>}

ScenarioArgs ==
    [mode : {"size"},
     postersize : {<<Num(297), Num(420)>>, <<Num(420), Num(594)>>},
     mult : {NoSize}, npages : {0},
     pagesize : {<<Num(210), Num(297)>>, <<Num(297), Num(210)>>},
     border : {<<Num(20), Num(20), Num(20), Num(20)>>},
     strategy : Strategies]

\* tags that compute_layout does not know, and page budgets below 1
UnknownModes == {"area", "Size"}
UnknownStrategies == {"greedy", "Complex"}
NoBudgets == {0, -1}

OddArgs ==
    [mode : {"npages"}, postersize : {NoSize}, mult : {NoSize},
     npages : NoBudgets,
     pagesize : PageSizes, border : Borders, strategy : Strategies]
    \cup [mode : UnknownModes, postersize : {<<Num(3), Num(4)>>}, mult : {Num(2)},
          npages : {2},
          pagesize : PageSizes, border : Borders,
          strategy : Strategies \cup UnknownStrategies]
    \cup [mode : {"size"}, postersize : {<<Num(3), Num(4)>>, <<Num(4), Num(6)>>},
          mult : {NoSize}, npages : {0},
          pagesize : PageSizes, border : Borders, strategy : UnknownStrategies]
    \cup [mode : {"npages"}, postersize : {NoSize}, mult : {NoSize},
          npages : {MaxPages},
          pagesize : PageSizes, border : Borders, strategy : UnknownStrategies]

\* the calls made on an instance whose page is inpage
ArgsOf(inpage) ==
    IF inpage \in ScenarioPages THEN ScenarioArgs ELSE CallArgs \cup OddArgs

Init ==
    /\ doc \in DocPages \cup ScenarioPages
    /\ layout = Absent
    /\ call = Absent
    /\ result = Absent
    /\ before = Absent
    /\ loop = Absent
    /\ outdoc = Absent
    /\ args = None
    /\ cpc = "unused"
    /\ simple = None
    /\ complex = None

\* a mutation of Assigned: the placements of the call are appended to the
\* list that the last call left
AssignedAppended(old, new) ==
    IF old # Absent /\ "positions" \in DOMAIN old /\ "positions" \in DOMAIN new
    THEN [new EXCEPT !.positions = old.positions \o new.positions]
    ELSE new

\* line 358, "self.layout = {...}": the attribute is bound to a new dict,
\* whatever it held before
Assigned(old, new) == new

\* a call plakativ.compute_layout(mode, postersize, mult, npages, pagesize,
\* border, strategy) with arguments from A
Call(A) ==
    /\ \E a \in A :
          \E r \in {compute_layout(doc, a.mode, a.postersize, a.mult, a.npages,
                                   a.pagesize, a.border, a.strategy)} :
              /\ call' = a
              /\ layout' = Assigned(layout, r.layout)
              /\ result' = [raised |-> r.raised, ret |-> r.ret,
                            bisect |-> r.bisect, best |-> r.best]
    /\ before' = layout
    /\ outdoc = Absent
    /\ UNCHANGED <<doc, args, cpc, simple, complex, loop, outdoc>>

\* the first compute_layout call on a new instance
ComputeLayout ==
    /\ layout = Absent
    /\ Call(ArgsOf(doc))

\* after a fit-to-box call: a second call in mode "mult" with the multiplier
\* that the first call returned, as the GUI makes it when the user switches
\* from the size to the multiplier (on the small pages only: the squares of
\* the scenarios' lengths exceed the integers of the model checker)
Reconvert ==
    /\ doc \in DocPages
    /\ call # Absent
    /\ before = Absent
    /\ call.mode = "size"
    /\ result.raised = None
    /\ Call({[call EXCEPT !.mode = "mult", !.postersize = NoSize,
                          !.mult = result.ret[2]]})

\* Plakativ.render, lines 710-751: the output page of the sheet placed at q:
\* its size in pt, the rectangle of the page that is filled (targetrect) and
\* the part of the input page that is shown there (sourcerect), both as
\* <<x0, y0, x1, y1>> in pt.  shift tells whether the clipping at the left
\* and at the top moves the target ("target_xoffset = -target_x").
SheetOf(L, inpage_width, q, shift) ==
    LET portrait_ == q[3]
        target_width == IF portrait_ THEN L.output_pagesize[1] ELSE L.output_pagesize[2]
        target_height == IF portrait_ THEN L.output_pagesize[2] ELSE L.output_pagesize[1]
        target_x == RSub(q[1], IF portrait_ THEN L.border_left ELSE L.border_bottom)
        target_y == RSub(q[2], IF portrait_ THEN L.border_top ELSE L.border_left)
        factor == RDiv(inpage_width, L.postersize[1])
        \* "if target_x < 0" and "if target_x + target_width > postersize[0]"
        Clip(t, size, limit) ==
            LET offset == IF RLt(t, Zero) THEN RSub(Zero, t) ELSE Zero
                size1 == IF RLt(t, Zero) THEN RAdd(size, t) ELSE size
                t1 == IF RLt(t, Zero) THEN Zero ELSE t
            IN  [offset |-> IF shift THEN offset ELSE Zero,
                 t |-> t1,
                 size |-> IF RGt(RAdd(t1, size1), limit) THEN RSub(limit, t1) ELSE size1]
        Rects_(cx, cy) ==
            [width |-> mm_to_pt(target_width),
             height |-> mm_to_pt(target_height),
             targetrect |-> <<mm_to_pt(cx.offset), mm_to_pt(cy.offset),
                              mm_to_pt(RAdd(cx.offset, cx.size)),
                              mm_to_pt(RAdd(cy.offset, cy.size))>>,
             sourcerect |-> <<mm_to_pt(RMul(factor, cx.t)),
                              mm_to_pt(RMul(factor, cy.t)),
                              mm_to_pt(RMul(factor, RAdd(cx.t, cx.size))),
                              mm_to_pt(RMul(factor, RAdd(cy.t, cy.size)))>>]
    IN  Rects_(Clip(target_x, target_width, L.postersize[1]),
               Clip(target_y, target_height, L.postersize[2]))

\* a mutation of Sheet: the part of the sheet that is left after clipping
\* is not moved, target_xoffset and target_yoffset stay 0
SheetUnshifted(L, inpage_width, q) == SheetOf(L, inpage_width, q, FALSE)

Sheet(L, inpage_width, q) == SheetOf(L, inpage_width, q, TRUE)

\* Plakativ.render without cover, guides, numbers and border: the exception
\* raised, or the output pages in the order of layout["positions"].  A
\* layout without the key "positions" ends the loop header with a KeyError.
render(L, inpage) ==
    IF L = Absent
    THEN [raised |-> "LayoutNotComputedException", pages |-> <<>>]
    ELSE IF "positions" \notin DOMAIN L
    THEN [raised |-> "KeyError", pages |-> <<>>]
    ELSE [raised |-> None,
          pages |-> [k \in 1..Len(L.positions) |->
                        Sheet(L, pt_to_mm(inpage[1]), L.positions[k])]]

\* plakativ.render(outfile): the last step on an instance
Render ==
    /\ outdoc = Absent
    /\ outdoc' = render(layout, doc)
    /\ UNCHANGED <<args, cpc, simple, complex, doc, layout, call, result, before, loop>>

Next == ComputeLayout \/ Reconvert \/ Render

Spec == Init /\ [][Next]_vars

\* ------------------------------------------------------------------------
\* Several calls on one instance
\* ------------------------------------------------------------------------
\* the calls of a session: the three modes with both strategies, and calls
\* that fail (an unknown mode, no page budget, a sheet without printable
\* width)
SessionArgs ==
    {[mode |-> "size", postersize |-> <<Num(3), Num(4)>>, mult |-> NoSize, npages |-> 0,
      pagesize |-> <<Num(2), Num(3)>>, border |-> <<Zero, Zero, Zero, Zero>>,
      strategy |-> "simple"],
     [mode |-> "size", postersize |-> <<Num(4), Num(6)>>, mult |-> NoSize, npages |-> 0,
      pagesize |-> <<Num(2), Num(2)>>, border |-> <<<<1, 2>>, <<1, 4>>, <<1, 2>>, <<3, 4>>>>,
      strategy |-> "complex"],
     [mode |-> "mult", postersize |-> NoSize, mult |-> Num(2), npages |-> 0,
      pagesize |-> <<Num(2), Num(3)>>, border |-> <<<<1, 2>>, <<1, 4>>, <<1, 2>>, <<3, 4>>>>,
      strategy |-> "simple"],
     [mode |-> "mult", postersize |-> NoSize, mult |-> <<9, 4>>, npages |-> 0,
      pagesize |-> <<Num(3), Num(2)>>, border |-> <<Zero, Zero, Zero, Zero>>,
      strategy |-> "complex"],
     [mode |-> "npages", postersize |-> NoSize, mult |-> NoSize, npages |-> 3,
      pagesize |-> <<Num(2), Num(2)>>, border |-> <<Zero, Zero, Zero, Zero>>,
      strategy |-> "complex"],
     [mode |-> "npages", postersize |-> NoSize, mult |-> NoSize, npages |-> MaxPages,
      pagesize |-> <<Num(2), Num(3)>>, border |-> <<<<1, 2>>, <<1, 4>>, <<1, 2>>, <<3, 4>>>>,
      strategy |-> "simple"],
     [mode |-> "area", postersize |-> <<Num(3), Num(4)>>, mult |-> Num(2), npages |-> 2,
      pagesize |-> <<Num(3), Num(2)>>, border |-> <<Zero, Zero, Zero, Zero>>,
      strategy |-> "simple"],
     [mode |-> "npages", postersize |-> NoSize, mult |-> NoSize, npages |-> 0,
      pagesize |-> <<Num(2), Num(3)>>, border |-> <<Zero, Zero, Zero, Zero>>,
      strategy |-> "complex"],
     [mode |-> "size", postersize |-> <<Num(3), Num(4)>>, mult |-> NoSize, npages |-> 0,
      pagesize |-> <<Num(2), Num(2)>>, border |-> <<Zero, Num(1), Zero, Num(1)>>,
      strategy |-> "simple"]}

\* a new instance on one of the small pages
InitSession == Init /\ doc \in DocPages

\* the first compute_layout call of the session
Compute ==
    /\ layout = Absent
    /\ Call(SessionArgs)

\* a further compute_layout call on the same instance
Recompute ==
    /\ layout # Absent
    /\ Call(SessionArgs)

NextSession == Compute \/ Recompute \/ Render

SpecSession == InitSession /\ [][NextSession]_vars

\* ------------------------------------------------------------------------
\* The bisection loop of mode "npages" with strategy "complex", step by step
\* ------------------------------------------------------------------------
\* the loop as lines 441-473 enter it: the bracket b and the values the loop
\* reads
LoopEntry(inpage, a) ==
    LET printable_width == RSub(a.pagesize[1], RAdd(a.border[4], a.border[2]))
        printable_height == RSub(a.pagesize[2], RAdd(a.border[1], a.border[3]))
        inpage_width == pt_to_mm(inpage[1])
        inpage_height == pt_to_mm(inpage[2])
    IN  [pc |-> "while",
         b |-> BisectInit(BruteForce(a.npages, printable_width, printable_height,
                                     inpage_width, inpage_height),
                          a.npages, printable_width, printable_height,
                          inpage_width, inpage_height),
         npages |-> a.npages,
         printable |-> <<printable_width, printable_height>>,
         inpage |-> <<inpage_width, inpage_height>>]

InitBisect ==
    /\ doc \in DocPages
    /\ \E a \in {c \in CallArgs : c.mode = "npages" /\ c.strategy = "complex"} :
          loop = LoopEntry(doc, a)
    /\ layout = Absent
    /\ call = Absent
    /\ result = Absent
    /\ before = Absent
    /\ outdoc = Absent
    /\ args = None
    /\ cpc = "unused"
    /\ simple = None
    /\ complex = None

\* lines 475-489: the exit test fails, one iteration
BisectIterate ==
    /\ loop.pc = "while"
    /\ ~BisectDone(loop.b)
    /\ loop' = [loop EXCEPT !.b = BisectStep(loop.b, loop.npages,
                                             loop.printable[1], loop.printable[2],
                                             loop.inpage[1], loop.inpage[2])]
    /\ UNCHANGED <<args, cpc, simple, complex, doc, layout, call, result, before, outdoc>>

\* lines 475-476: the exit test succeeds, break
BisectBreak ==
    /\ loop.pc = "while"
    /\ BisectDone(loop.b)
    /\ loop' = [loop EXCEPT !.pc = "done"]
    /\ UNCHANGED <<args, cpc, simple, complex, doc, layout, call, result, before, outdoc>>

NextBisect == BisectIterate \/ BisectBreak

\* BisectIterate can be taken: it always changes loop (steps grows)
IterateEnabled == loop.pc = "while" /\ ~BisectDone(loop.b)

\* the loop is sequential code: once entered it keeps running. The fairness
\* of the iteration is WF_vars(BisectIterate) with its ENABLED written out.
SpecBisect ==
    /\ InitBisect
    /\ [][NextBisect]_vars
    /\ WF_vars(BisectBreak)
    /\ ([]<>~IterateEnabled \/ []<><<BisectIterate>>_vars)

\* ------------------------------------------------------------------------
\* Calls with borders that leave no printable area
\* ------------------------------------------------------------------------
WideBorders ==
    {<<Zero, Num(1), Zero, Num(1)>>,
     <<Num(1), Zero, Num(1), Zero>>,
     <<Zero, <<3, 2>>, Zero, <<3, 2>>>>,
     <<<<3, 2>>, Zero, <<3, 2>>, Zero>>,
     <<Num(2), Num(2), Num(2), Num(2)>>}

\* border_left + border_right >= sheet width or border_top + border_bottom
\* >= sheet height
NoPrintableArea(pagesize, border) ==
    \/ RGe(RAdd(border[4], border[2]), pagesize[1])
    \/ RGe(RAdd(border[1], border[3]), pagesize[2])

DegenerateArgs ==
    {a \in [mode : {"size"}, postersize : Boxes, mult : {NoSize}, npages : {0},
            pagesize : PageSizes, border : WideBorders, strategy : Strategies]
         \cup [mode : {"mult"}, postersize : {NoSize}, mult : Factors, npages : {0},
               pagesize : PageSizes, border : WideBorders, strategy : Strategies]
         \cup [mode : {"npages"}, postersize : {NoSize}, mult : {NoSize},
               npages : 1..MaxPages,
               pagesize : PageSizes, border : WideBorders, strategy : Strategies] :
        NoPrintableArea(a.pagesize, a.border)}

\* the first compute_layout call on a new instance, with such borders
ComputeLayoutDegenerate ==
    /\ layout = Absent
    /\ Call(DegenerateArgs)

NextDegenerate == ComputeLayoutDegenerate

\* a new instance on one of the small pages
InitDegenerate == Init /\ doc \in DocPages

SpecDegenerate == InitDegenerate /\ [][NextDegenerate]_vars

\* ------------------------------------------------------------------------
\* The cover functions applied to arguments from bounded sets
\* ------------------------------------------------------------------------
\* posters of long sheets: a sheet turned by a quarter is longer than the
\* poster is high
LongArgs ==
    {[n |-> Num(6), m |-> Num(3), x |-> Num(5), y |-> Num(1)],
     [n |-> Num(3), m |-> Num(6), x |-> Num(1), y |-> Num(5)],
     [n |-> Num(9), m |-> Num(3), x |-> Num(4), y |-> Num(1)]}

CoverArgs ==
    [n : {Num(k) : k \in 1..MaxPoster}, m : {Num(k) : k \in 1..MaxPoster},
     x : {Num(k) : k \in 1..MaxSheet}, y : {Num(k) : k \in 1..MaxSheet}]
    \cup LongArgs

InitCover ==
    /\ args \in CoverArgs
    /\ cpc = "args"
    /\ simple = [config |-> <<>>, size |-> <<Zero, Zero>>]
    /\ complex = [config |-> <<>>, tried |-> 0]
    /\ doc = NoSize
    /\ layout = Absent
    /\ call = Absent
    /\ result = Absent
    /\ before = Absent
    /\ loop = Absent
    /\ outdoc = Absent

RunCover ==
    /\ cpc = "args"
    /\ cpc' = "done"
    /\ simple' = simple_cover(args.n, args.m, args.x, args.y)
    /\ complex' = complex_search(args.n, args.m, args.x, args.y)
    /\ UNCHANGED <<args, doc, layout, call, result, before, loop, outdoc>>

NextCover == RunCover

SpecCover == InitCover /\ [][NextCover]_vars

\* ------------------------------------------------------------------------
\* The border option of the command line: parse_num and parse_borderarg
\* ------------------------------------------------------------------------
\* a string as the sequence of its characters
Str(t) == [k \in 1..Len(t) |-> SubSeq(t, k, k)]

Digit == [c \in {"0", "1", "2", "3", "4", "5", "6", "7", "8", "9"} |->
             CASE c = "0" -> 0 [] c = "1" -> 1 [] c = "2" -> 2 [] c = "3" -> 3
               [] c = "4" -> 4 [] c = "5" -> 5 [] c = "6" -> 6 [] c = "7" -> 7
               [] c = "8" -> 8 [] c = "9" -> 9]

RECURSIVE DecValue(_)
DecValue(s) ==
    IF s = <<>> THEN 0
    ELSE 10 * DecValue(SubSeq(s, 1, Len(s) - 1)) + Digit[s[Len(s)]]

\* float(num) on strings of digits, letters, "-" and ":": a run of decimal
\* digits with an optional sign is a number, everything else a ValueError
Float(s) ==
    LET digits == IF s # <<>> /\ s[1] = "-" THEN SubSeq(s, 2, Len(s)) ELSE s
    IN  IF digits # <<>> /\ \A k \in 1..Len(digits) : digits[k] \in DOMAIN Digit
        THEN [ok |-> TRUE,
              val |-> IF s[1] = "-" THEN Num(-DecValue(digits))
                                    ELSE Num(DecValue(digits))]
        ELSE [ok |-> FALSE, val |-> Zero]

\* num.endswith(suffix)
EndsWith(s, suffix) ==
    Len(s) >= Len(suffix) /\ SubSeq(s, Len(s) - Len(suffix) + 1, Len(s)) = suffix

cm_to_mm(length) == RMul(length, Num(10))
in_to_mm(length) == RMul(length, <<127, 5>>)

\* parse_num: the length in mm, or the ArgumentTypeError raised
parse_num(num) ==
    LET unit == IF EndsWith(num, Str("pt")) THEN "pt"
                ELSE IF EndsWith(num, Str("cm")) THEN "cm"
                ELSE IF EndsWith(num, Str("mm")) THEN "mm"
                ELSE IF EndsWith(num, Str("in")) THEN "inch"
                ELSE None
        Converted(f) ==
            IF ~f.ok \/ RLt(f.val, Zero)
            THEN [raised |-> "ArgumentTypeError", value |-> NoSize]
            ELSE [raised |-> None,
                  value |-> IF unit = "cm" THEN cm_to_mm(f.val)
                            ELSE IF unit = "pt" THEN pt_to_mm(f.val)
                            ELSE IF unit = "inch" THEN in_to_mm(f.val)
                            ELSE f.val]
    IN  IF num = <<>>
        THEN [raised |-> "ArgumentTypeError", value |-> NoSize]
        ELSE Converted(Float(IF unit = None THEN num
                             ELSE SubSeq(num, 1, Len(num) - 2)))

\* string.split(":")
RECURSIVE Split(_)
Split(string) ==
    IF \A k \in 1..Len(string) : string[k] # ":"
    THEN <<string>>
    ELSE LET i == CHOOSE k \in 1..Len(string) :
                      /\ string[k] = ":"
                      /\ \A j \in 1..(k - 1) : string[j] # ":"
         IN  <<SubSeq(string, 1, i - 1)>> \o Split(SubSeq(string, i + 1, Len(string)))

\* the tuple (t, r, b, l) of the parsed values, or the error of one of them
Borders4(t, r, b, l) ==
    IF \E v \in {t, r, b, l} : v.raised # None
    THEN [raised |-> "ArgumentTypeError", value |-> NoSize]
    ELSE [raised |-> None, value |-> <<t.value, r.value, b.value, l.value>>]

\* a mutation of parse_borderarg: with three values the second one is the
\* bottom border and the third one the right and left border
parse_borderarg_swapped(string) ==
    LET vals == Split(string)
    IN  IF Len(vals) > 1
        THEN IF Len(vals) = 2
             THEN Borders4(parse_num(vals[1]), parse_num(vals[2]),
                           parse_num(vals[1]), parse_num(vals[2]))
             ELSE IF Len(vals) = 3
             THEN Borders4(parse_num(vals[1]), parse_num(vals[3]),
                           parse_num(vals[2]), parse_num(vals[3]))
             ELSE IF Len(vals) = 4
             THEN Borders4(parse_num(vals[1]), parse_num(vals[2]),
                           parse_num(vals[3]), parse_num(vals[4]))
             ELSE [raised |-> "ArgumentTypeError", value |-> NoSize]
        ELSE IF string = <<>>
             THEN [raised |-> "ArgumentTypeError", value |-> NoSize]
             ELSE Borders4(parse_num(string), parse_num(string),
                           parse_num(string), parse_num(string))

parse_borderarg(string) ==
    LET vals == Split(string)
    IN  IF Len(vals) > 1
        THEN IF Len(vals) = 2
             THEN Borders4(parse_num(vals[1]), parse_num(vals[2]),
                           parse_num(vals[1]), parse_num(vals[2]))
             ELSE IF Len(vals) = 3
             THEN Borders4(parse_num(vals[1]), parse_num(vals[2]),
                           parse_num(vals[3]), parse_num(vals[2]))
             ELSE IF Len(vals) = 4
             THEN Borders4(parse_num(vals[1]), parse_num(vals[2]),
                           parse_num(vals[3]), parse_num(vals[4]))
             ELSE [raised |-> "ArgumentTypeError", value |-> NoSize]
        ELSE IF string = <<>>
             THEN [raised |-> "ArgumentTypeError", value |-> NoSize]
             ELSE Borders4(parse_num(string), parse_num(string),
                           parse_num(string), parse_num(string))

\* the values a border option is made of: on the command line any string
\* can be given
PlainValues == {Str(""), Str("1"), Str("-2"), Str("3cm"), Str("x")}
UnitValues == {Str("12"), Str("-0"), Str("5pt"), Str("mm"), Str("2in"), Str("-1mm"), Str("7m")}

RECURSIVE Joined(_)
Joined(vals) ==
    IF Len(vals) = 1 THEN vals[1]
    ELSE vals[1] \o Str(":") \o Joined(Tail(vals))

BorderStrings ==
    {Joined(v) : v \in UNION {[1..k -> PlainValues] : k \in 1..MaxVals}}
    \cup {Joined(v) : v \in UNION {[1..k -> UnitValues] : k \in 1..2}}

InitBorder ==
    /\ args \in BorderStrings
    /\ cpc = "args"
    /\ result = Absent
    /\ simple = None
    /\ complex = None
    /\ doc = NoSize
    /\ layout = Absent
    /\ call = Absent
    /\ before = Absent
    /\ loop = Absent
    /\ outdoc = Absent

\* argparse applies type=parse_borderarg to the option
ParseBorder ==
    /\ cpc = "args"
    /\ cpc' = "done"
    /\ result' = parse_borderarg(args)
    /\ UNCHANGED <<args, simple, complex, doc, layout, call, before, loop, outdoc>>

NextBorder == ParseBorder

SpecBorder == InitBorder /\ [][NextBorder]_vars

\* ------------------------------------------------------------------------
\* Geometry used to state the properties
\* ------------------------------------------------------------------------
\* the printable rectangle of a placement (posx, posy, portrait)
PRect(pl, x, y) ==
    [x0 |-> pl[1], y0 |-> pl[2],
     x1 |-> RAdd(pl[1], IF pl[3] THEN x ELSE y),
     y1 |-> RAdd(pl[2], IF pl[3] THEN y ELSE x)]

Rects(config, x, y) == {PRect(config[k], x, y) : k \in 1..Len(config)}

Box(x0, y0, x1, y1) == [x0 |-> x0, y0 |-> y0, x1 |-> x1, y1 |-> y1]

\* the cuts of the interval [lo, hi] by the values cs
Cuts(cs, lo, hi) == {lo, hi} \cup {c \in cs : RLt(lo, c) /\ RLt(c, hi)}

\* the union of the rectangles rs contains the box b: every cell of the grid
\* that the rectangles' edges cut b into lies in one of the rectangles
Covers(rs, b) ==
    LET xs == Cuts({r.x0 : r \in rs} \cup {r.x1 : r \in rs}, b.x0, b.x1)
        ys == Cuts({r.y0 : r \in rs} \cup {r.y1 : r \in rs}, b.y0, b.y1)
        Adjacent(cs, lo, hi) == RLt(lo, hi) /\ \A c \in cs : ~(RLt(lo, c) /\ RLt(c, hi))
    IN  \A xa \in xs, xb \in xs :
            Adjacent(xs, xa, xb) =>
                \A ya \in ys, yb \in ys :
                    Adjacent(ys, ya, yb) =>
                        \E r \in rs : /\ RLe(r.x0, xa) /\ RLe(xb, r.x1)
                                      /\ RLe(r.y0, ya) /\ RLe(yb, r.y1)

Poster == Box(Zero, Zero, args.n, args.m)

AllKeys == Keys(args.n, args.m, args.x, args.y, 0,
                num_rotations(args.n, args.m, args.x, args.y))

CandidateAt(k) ==
    Candidate(args.n, args.m, args.x, args.y, k[1], k[2], k[3], k[4], k[5])

PagesPortrait == Ceil(RDiv(args.n, args.x)) * Ceil(RDiv(args.m, args.y))
PagesLandscape == Ceil(RDiv(args.n, args.y)) * Ceil(RDiv(args.m, args.x))
Minimum == Ceil(RDiv(RMul(args.n, args.m), RMul(args.x, args.y)))

\* ------------------------------------------------------------------------
\* Properties of simple_cover and complex_cover (checked under SpecCover)
\* ------------------------------------------------------------------------
\* C1: complex_cover(n, m, x, y) returns no more placements than
\* simple_cover(n, m, x, y).
C1_ComplexAtMostSimple ==
    cpc = "done" => Len(complex.config) <= Len(simple.config)

\* a poster for which the corner blocks beat the grid
C1_Witness ==
    cpc = "done" /\ complex.tried > 0 /\ Len(complex.config) < Len(simple.config)

\* C2: the union of the printable rectangles of the placements returned by
\* simple_cover contains the poster rectangle [0,n] x [0,m].
C2_SimpleCoversPoster ==
    cpc = "done" => Covers(Rects(simple.config, args.x, args.y), Poster)

\* a rotated grid of several sheets that overhangs the poster
C2_Witness ==
    /\ cpc = "done"
    /\ Len(simple.config) > 1
    /\ ~simple.config[1][3]
    /\ RLt(args.n, simple.size[1])

\* C3: the union of the printable rectangles of the placements returned by
\* complex_cover contains the poster rectangle; for every (r, w0, h0, w2, h2)
\* of the loops the four corner blocks together with the one central
\* rectangle that the code detects contain the poster, and the centered
\* simple_cover fill contains that central rectangle.
C3_ComplexCoversPoster ==
    cpc = "done" =>
        /\ Covers(Rects(complex.config, args.x, args.y), Poster)
        /\ \A i \in 1..Len(AllKeys) :
              LET c == CandidateAt(AllKeys[i])
                  h == c.hole
                  hb == Box(h[1], h[2], RAdd(h[1], h[3]), RAdd(h[2], h[4]))
              IN  IF h = <<>>
                  THEN Covers(Rects(c.corners, args.x, args.y), Poster)
                  ELSE /\ Covers(Rects(c.corners, args.x, args.y) \cup {hb}, Poster)
                       /\ Covers(Rects(c.fill, args.x, args.y), hb)

\* complex_cover returned corner blocks with a filled central hole
C3_Witness ==
    /\ cpc = "done"
    /\ Len(complex.config) < Len(simple.config)
    /\ \E i \in 1..Len(AllKeys) :
          /\ CandidateAt(AllKeys[i]).newconfig = complex.config
          /\ CandidateAt(AllKeys[i]).hole # <<>>
          /\ RLt(CandidateAt(AllKeys[i]).hole[3], args.x)

\* C4: simple_cover returns exactly min(ceil(n/x)*ceil(m/y),
\* ceil(n/y)*ceil(m/x)) placements, all with the same orientation flag, and
\* the flag is TRUE (unrotated) whenever ceil(n/x)*ceil(m/y) <=
\* ceil(n/y)*ceil(m/x), ties included.
C4_SimpleCount ==
    cpc = "done" =>
        /\ Len(simple.config) =
              IF PagesPortrait <= PagesLandscape THEN PagesPortrait ELSE PagesLandscape
        /\ \A i \in 1..Len(simple.config) :
              simple.config[i][3] = simple.config[1][3]
        /\ PagesPortrait <= PagesLandscape => simple.config[1][3]

\* a tie between the two orientations of a sheet that is not square
C4_Witness ==
    /\ cpc = "done"
    /\ PagesPortrait = PagesLandscape
    /\ args.x # args.y
    /\ Len(simple.config) > 1
    /\ simple.config[1][3]

\* C5: whenever ceil(n*m/(x*y)) equals len(simple_cover(n, m, x, y)[0]),
\* complex_cover returns the simple_cover placement list itself and builds no
\* corner-block candidate.
C5_ShortCircuit ==
    cpc = "done" /\ Minimum = Len(simple.config) =>
        /\ complex.config = simple.config
        /\ Len(complex.config) = Minimum
        /\ complex.tried = 0

\* the grid is already minimal although the loops have candidates to offer
C5_Witness ==
    /\ cpc = "done"
    /\ Minimum = Len(simple.config)
    /\ Len(AllKeys) > 0
    /\ complex.config = simple.config

\* ------------------------------------------------------------------------
\* Properties of compute_layout (checked under Spec)
\* ------------------------------------------------------------------------
InW == pt_to_mm(doc[1])
InH == pt_to_mm(doc[2])
SourceArea == RMul(InW, InH)

\* a compute_layout call in the given mode has returned
Returned(mode) == call # Absent /\ call.mode = mode /\ result.raised = None

\* one rounding step of math.sqrt
SqrtUlp == <<1, SqrtRes>>

\* r is the square root of a up to the rounding of math.sqrt
IsRoot(r, a) ==
    /\ RLe(Zero, r)
    /\ RLe(RMul(r, r), a)
    /\ RLt(a, RMul(RAdd(r, SqrtUlp), RAdd(r, SqrtUlp)))

\* the largest page of the source's aspect ratio inside a w x h box
LargestIn(w, h) ==
    LET scale == IF RLe(RDiv(w, InW), RDiv(h, InH)) THEN RDiv(w, InW) ELSE RDiv(h, InH)
    IN  <<RMul(scale, InW), RMul(scale, InH)>>

\* C6: in page-budget mode (mode "npages", n >= 1), for both strategies, the
\* layout contains at most n sheet placements, whatever the bisection of
\* strategy complex did.
C6_AtMostNPages ==
    Returned("npages") /\ call.npages >= 1 =>
        Len(layout.positions) <= call.npages

\* strategy complex used up a budget of several sheets although the bisection
\* never moved its lower bound
C6_Witness ==
    /\ Returned("npages")
    /\ call.strategy = "complex"
    /\ call.npages > 1
    /\ ~result.bisect.moved
    /\ Len(layout.positions) = call.npages

\* C7 as claimed: in page-budget mode with strategy complex the area of the
\* resolved poster is at least the area of the poster that the simple-grid
\* brute-force search finds.
C7_AreaAtLeastSimple ==
    Returned("npages") /\ call.strategy = "complex" =>
        RGe(Area(layout.postersize), Area(result.best))

\* C7 as amended: in page-budget mode with strategy complex the area
\* multiplier the bisection ends with is at least 0.9999 times the area
\* multiplier of the poster the simple-grid search finds, and the resolved
\* poster is the source page scaled by the square root of that multiplier.
C7_AtLeastSafetyFactor ==
    Returned("npages") /\ call.strategy = "complex" =>
        /\ RGe(result.bisect.min_area_mult,
               RMul(SafetyFactor, RDiv(Area(result.best), SourceArea)))
        /\ layout.postersize = <<RMul(InW, Sqrt(result.bisect.min_area_mult)),
                                 RMul(InH, Sqrt(result.bisect.min_area_mult))>>

\* the bisection ended below the multiplier of the simple-grid poster
C7_Witness ==
    /\ Returned("npages")
    /\ call.strategy = "complex"
    /\ call.npages > 1
    /\ RLt(result.bisect.min_area_mult, RDiv(Area(result.best), SourceArea))
    /\ RLt(Area(layout.postersize), Area(result.best))

\* C8 as claimed: in every mode the returned poster width x height divided
\* by the source width x height equals the returned area multiplier.
C8_TripleConsistent ==
    call # Absent /\ result.raised = None =>
        RDiv(Area(result.ret[1]), SourceArea) = result.ret[2]

\* C8 as amended: in mode npages the returned size is the layout's
\* postersize and its area over the source area is the returned multiplier;
\* in mode mult the returned multiplier is the factor passed in and the
\* returned size is the layout's postersize, whose sides are the square roots
\* of factor x source side^2 up to the rounding of math.sqrt; in mode size the
\* returned size is the box passed in and the returned multiplier is the area
\* of the layout's postersize over the source area, which is the box area
\* over the source area exactly if the box has the source's aspect ratio, as
\* given or swapped, and smaller otherwise.
C8_TripleAsReturned ==
    /\ Returned("npages") =>
          /\ result.ret[1] = layout.postersize
          /\ RDiv(Area(result.ret[1]), SourceArea) = result.ret[2]
    /\ Returned("mult") =>
          /\ result.ret[1] = layout.postersize
          /\ result.ret[2] = call.mult
          /\ IsRoot(result.ret[1][1], RMul(call.mult, RMul(InW, InW)))
          /\ IsRoot(result.ret[1][2], RMul(call.mult, RMul(InH, InH)))
    /\ Returned("size") =>
          /\ result.ret[1] = call.postersize
          /\ result.ret[2] = RDiv(Area(layout.postersize), SourceArea)
          /\ RLe(result.ret[2], RDiv(Area(call.postersize), SourceArea))
          /\ (result.ret[2] = RDiv(Area(call.postersize), SourceArea))
                <=> \/ RMul(call.postersize[1], InH) = RMul(call.postersize[2], InW)
                    \/ RMul(call.postersize[2], InH) = RMul(call.postersize[1], InW)

\* fit-to-box returned a box that is larger than the poster it resolved
C8_Witness ==
    /\ Returned("size")
    /\ result.ret[1] = call.postersize
    /\ RLt(Area(layout.postersize), Area(result.ret[1]))

\* C9 as claimed: in area-multiplier mode with factor f the resolved poster
\* satisfies posterW * posterH = f * sourceW * sourceH and
\* posterW / posterH = sourceW / sourceH.
C9_MultExact ==
    Returned("mult") =>
        /\ Area(layout.postersize) = RMul(call.mult, SourceArea)
        /\ RDiv(layout.postersize[1], layout.postersize[2]) = RDiv(InW, InH)

\* C9 as amended: in area-multiplier mode with factor f > 0 each side of the
\* resolved poster is the square root of f x (source side)^2 up to the
\* rounding of math.sqrt, so that area and aspect ratio are those of the
\* source scaled by f only up to that rounding.
C9_MultUpToRounding ==
    Returned("mult") =>
        /\ IsRoot(layout.postersize[1], RMul(call.mult, RMul(InW, InW)))
        /\ IsRoot(layout.postersize[2], RMul(call.mult, RMul(InH, InH)))

\* a factor whose square root is rounded, on a page that is not square
C9_Witness ==
    /\ Returned("mult")
    /\ InW # InH
    /\ layout.postersize[1] # layout.postersize[2]
    /\ Area(layout.postersize) # RMul(call.mult, SourceArea)

\* C10: in fit-to-box mode the resolved poster keeps the source aspect ratio,
\* fits inside the box as given or swapped, touches that box in at least one
\* dimension, and is the larger-area one of the two fits.
C10_FitToBox ==
    Returned("size") =>
        LET pw == layout.postersize[1]
            ph == layout.postersize[2]
            bw == call.postersize[1]
            bh == call.postersize[2]
            FitsTouching(w, h) ==
                /\ RLe(pw, w) /\ RLe(ph, h)
                /\ (pw = w \/ ph = h)
        IN  /\ RMul(pw, InH) = RMul(ph, InW)
            /\ FitsTouching(bw, bh) \/ FitsTouching(bh, bw)
            /\ RGe(Area(layout.postersize), Area(LargestIn(bw, bh)))
            /\ RGe(Area(layout.postersize), Area(LargestIn(bh, bw)))
            /\ layout.postersize \in {LargestIn(bw, bh), LargestIn(bh, bw)}

\* the swapped box holds a strictly larger poster than the box as given
C10_Witness ==
    /\ Returned("size")
    /\ RGt(Area(layout.postersize),
           Area(LargestIn(call.postersize[1], call.postersize[2])))
    /\ layout.postersize = LargestIn(call.postersize[2], call.postersize[1])
    /\ layout.postersize[1] # call.postersize[2]

\* ------------------------------------------------------------------------
\* Switching between the modes (C11)
\* ------------------------------------------------------------------------
\* the second call was made with the multiplier of a fit-to-box call and
\* returned
Reconverted == Returned("mult") /\ before # Absent

\* C11 as claimed: resolving a fit-to-box request to a poster, computing its
\* area multiplier, and resolving again in area-multiplier mode with that
\* multiplier reproduces the same poster width and height.
C11_RoundTripExact ==
    Reconverted => layout.postersize = before.postersize

\* C11 as amended: the second resolution reproduces the poster width and
\* height up to the rounding of the two square roots: each side differs from
\* the first one by less than one rounding step of math.sqrt.
C11_RoundTripUpToRounding ==
    Reconverted =>
        /\ RLt(RAbs(RSub(layout.postersize[1], before.postersize[1])), SqrtUlp)
        /\ RLt(RAbs(RSub(layout.postersize[2], before.postersize[2])), SqrtUlp)

\* a round trip of a poster larger than the source whose width changed
C11_Witness ==
    /\ Reconverted
    /\ call.mult # Num(1)
    /\ layout.postersize[1] # before.postersize[1]

\* ------------------------------------------------------------------------
\* The grid of the simple strategy (C12)
\* ------------------------------------------------------------------------
\* lines 366-371: the sheet without its borders
PrintableW == RSub(call.pagesize[1], RAdd(call.border[4], call.border[2]))
PrintableH == RSub(call.pagesize[2], RAdd(call.border[1], call.border[3]))

\* the placements are a pages_x x pages_y grid of cells of one orientation,
\* row by row, that overhangs the poster by the same amount on opposite sides
IsCenteredGrid(pages_x, pages_y, is_portrait) ==
    LET w == IF is_portrait THEN PrintableW ELSE PrintableH
        h == IF is_portrait THEN PrintableH ELSE PrintableW
        P == layout.positions
        left == RSub(Zero, P[1][1])
        top == RSub(Zero, P[1][2])
    IN  /\ Len(P) = pages_x * pages_y
        /\ \A k \in 1..Len(P) :
              P[k] = <<RAdd(P[1][1], RMul(Num((k - 1) % pages_x), w)),
                       RAdd(P[1][2], RMul(Num((k - 1) \div pages_x), h)),
                       is_portrait>>
        /\ RLe(Zero, left)
        /\ RLe(Zero, top)
        /\ left = RSub(RAdd(P[1][1], RMul(Num(pages_x), w)), layout.postersize[1])
        /\ top = RSub(RAdd(P[1][2], RMul(Num(pages_y), h)), layout.postersize[2])

\* the call of the test: an A4 portrait source as an A3 poster on A4 portrait
\* sheets with a border of 20 mm, simple strategy
IsA3OnA4 ==
    /\ Returned("size")
    /\ call.strategy = "simple"
    /\ doc = <<mm_to_pt(Num(210)), mm_to_pt(Num(297))>>
    /\ call.postersize = <<Num(297), Num(420)>>
    /\ call.pagesize = <<Num(210), Num(297)>>
    /\ call.border = <<Num(20), Num(20), Num(20), Num(20)>>

\* C12: in size mode with the simple strategy the placements are a
\* single-orientation pages_x x pages_y grid, emitted row by row, whose
\* printable area is centered on the poster (same overhang left and right,
\* same overhang top and bottom); a 210x297 source in a 297x420 box on
\* 210x297 sheets with a uniform 20 mm border gives exactly 4 placements, 2x2.
C12_SimpleGrid ==
    /\ (Returned("size") /\ call.strategy = "simple") =>
            \E pages_x, pages_y \in 1..Len(layout.positions) :
                \E is_portrait \in BOOLEAN :
                    IsCenteredGrid(pages_x, pages_y, is_portrait)
    /\ IsA3OnA4 =>
            /\ Len(layout.positions) = 4
            /\ \E is_portrait \in BOOLEAN : IsCenteredGrid(2, 2, is_portrait)

\* the call of the test has returned, and its poster is narrower than the
\* two sheets of a row, so that the grid overhangs it
C12_Witness ==
    /\ IsA3OnA4
    /\ Len(layout.positions) > 1
    /\ RLt(layout.positions[1][1], Zero)

\* ------------------------------------------------------------------------
\* The complex strategy against the simple one (C13)
\* ------------------------------------------------------------------------
\* an A4 source as an A2 poster on A4 sheets that are perpendicular to the
\* source, border 20 mm
IsA2OnPerpendicularA4 ==
    /\ Returned("size")
    /\ call.postersize = <<Num(420), Num(594)>>
    /\ call.border = <<Num(20), Num(20), Num(20), Num(20)>>
    /\ \/ /\ doc = <<mm_to_pt(Num(210)), mm_to_pt(Num(297))>>
          /\ call.pagesize = <<Num(297), Num(210)>>
       \/ /\ doc = <<mm_to_pt(Num(297)), mm_to_pt(Num(210))>>
          /\ call.pagesize = <<Num(210), Num(297)>>

\* the placements of the same call with strategy simple
SimplePositions ==
    compute_layout(doc, call.mode, call.postersize, call.mult, call.npages,
                   call.pagesize, call.border, "simple").layout.positions

\* C13: for fit-to-box 420x594 mm with a uniform 20 mm border and an A4
\* source on A4 sheets in perpendicular orientations (portrait on landscape,
\* landscape on portrait) strategy complex yields strictly fewer sheets than
\* strategy simple for the identical inputs, namely 6.
C13_ComplexFewer ==
    (IsA2OnPerpendicularA4 /\ call.strategy = "complex") =>
        /\ Len(layout.positions) < Len(SimplePositions)
        /\ Len(layout.positions) = 6

\* the call of the test (landscape source, portrait sheets) with strategy
\* complex has returned a layout with sheets of both orientations
C13_Witness ==
    /\ IsA2OnPerpendicularA4
    /\ call.strategy = "complex"
    /\ doc = <<mm_to_pt(Num(297)), mm_to_pt(Num(210))>>
    /\ \E j, k \in 1..Len(layout.positions) :
          layout.positions[j][3] /\ ~layout.positions[k][3]

\* ------------------------------------------------------------------------
\* Borders that leave no printable area (C14), under SpecDegenerate
\* ------------------------------------------------------------------------
\* C14: when border_left + border_right >= sheet width or border_top +
\* border_bottom >= sheet height, compute_layout raises an error before any
\* tiling is attempted: it never returns a layout (for example one with zero
\* placements) computed from a zero or negative printable area.
C14_NoPrintableAreaRejected ==
    (call # Absent /\ NoPrintableArea(call.pagesize, call.border)) =>
        /\ result.raised # None
        /\ result.ret = NoSize
        /\ layout = [output_pagesize |-> call.pagesize,
                     border_top |-> call.border[1],
                     border_right |-> call.border[2],
                     border_bottom |-> call.border[3],
                     border_left |-> call.border[4]]

\* ------------------------------------------------------------------------
\* The bounding box (C15, C16)
\* ------------------------------------------------------------------------
\* Plakativ.render, lines 661-675: the borders <<left, top, right, bottom>>
\* of a sheet as it lies on the poster; a landscape sheet is rotated 90
\* degrees clockwise
SheetBorders(is_portrait) ==
    IF is_portrait
    THEN <<layout.border_left, layout.border_top,
           layout.border_right, layout.border_bottom>>
    ELSE <<layout.border_bottom, layout.border_left,
           layout.border_top, layout.border_right>>

\* Plakativ.render, lines 653-696: the paper of the sheet placed at q, as
\* <<x0, y0, x1, y1>> in the coordinates of the bounding box
PaperRect(q) ==
    LET b == SheetBorders(q[3])
        page_width == IF q[3] THEN layout.output_pagesize[1]
                              ELSE layout.output_pagesize[2]
        page_height == IF q[3] THEN layout.output_pagesize[2]
                               ELSE layout.output_pagesize[1]
        x0 == RSub(RAdd(q[1], layout.posterpos[1]), b[1])
        y0 == RSub(RAdd(q[2], layout.posterpos[2]), b[2])
    IN  <<x0, y0, RAdd(x0, page_width), RAdd(y0, page_height)>>

\* the poster, in the same coordinates
PosterRect ==
    <<layout.posterpos[1], layout.posterpos[2],
      RAdd(layout.posterpos[1], layout.postersize[1]),
      RAdd(layout.posterpos[2], layout.postersize[2])>>

InsideOverall(r) ==
    /\ RLe(Zero, r[1])
    /\ RLe(Zero, r[2])
    /\ RLe(r[3], layout.overallsize[1])
    /\ RLe(r[4], layout.overallsize[2])

\* a call has returned a layout
Produced == call # Absent /\ result.raised = None

\* C15: for every layout compute_layout produces (either strategy, either
\* sheet orientation, any non-negative borders including left # right and
\* top # bottom) the poster rectangle and every sheet's full paper rectangle
\* lie inside the bounding box [0, overallW] x [0, overallH], a rotated
\* sheet having left = border_bottom, top = border_left, right = border_top
\* and bottom = border_right as render uses them.
C15_InsideBoundingBox ==
    Produced =>
        /\ InsideOverall(PosterRect)
        /\ \A k \in 1..Len(layout.positions) :
              InsideOverall(PaperRect(layout.positions[k]))

\* the sheets of the layout are upright
Upright == layout.positions[1][3]

\* the borders <<x, y>> in front of the first sheet of the grid and behind
\* its last one, as lines 514-536 add them
Leading == IF Upright THEN <<layout.border_left, layout.border_top>> ELSE <<layout.border_bottom, layout.border_right>>
Trailing == IF Upright THEN <<layout.border_right, layout.border_bottom>> ELSE <<layout.border_top, layout.border_left>>

\* (overall - poster) / 2 in direction i
Centre(i) == RHalf(RSub(layout.overallsize[i], layout.postersize[i]))

\* C16 as claimed: for strategy simple the poster offset centers the poster
\* in the overall bounding box: posterpos_x = (overallW - posterW) / 2 and
\* posterpos_y = (overallH - posterH) / 2, for every non-negative border
\* tuple and both sheet orientations.
C16_PosterCentered ==
    (Produced /\ call.strategy = "simple") =>
        layout.posterpos = <<Centre(1), Centre(2)>>

\* C16 as amended: for strategy simple the poster offset centers the poster
\* in the printable area of the grid, not in the bounding box: in each
\* direction posterpos = (overall - poster) / 2 + (leading border - trailing
\* border) / 2, the leading and trailing borders being left/right and
\* top/bottom for upright sheets, bottom/top and right/left for rotated
\* ones; this is the centre of the bounding box where the two are equal.
C16_PosterCenteredInPrintable ==
    (Produced /\ call.strategy = "simple") =>
        \A i \in 1..2 :
            layout.posterpos[i] =
                RAdd(Centre(i), RHalf(RSub(Leading[i], Trailing[i])))

\* a grid of rotated sheets with different borders on opposite sides whose
\* poster is not in the centre of the bounding box
C16_Witness ==
    /\ Produced
    /\ call.strategy = "simple"
    /\ ~Upright
    /\ Leading[2] # Trailing[2]
    /\ layout.posterpos[2] # Centre(2)

\* ------------------------------------------------------------------------
\* Termination of the bisection (C17), under SpecBisect
\* ------------------------------------------------------------------------
Width(b) == RAbs(RSub(b.max_area_mult, b.min_area_mult))

\* the rounding of the midpoint
MidpointUlp == <<1, SafetyFactor[2]>>

\* the number of sheets complex_cover needs for the page of area_mult
SheetsAt(area_mult) ==
    Len(complex_cover(RMul(Sqrt(area_mult), loop.inpage[1]),
                      RMul(Sqrt(area_mult), loop.inpage[2]),
                      loop.printable[1], loop.printable[2]))

\* one iteration moved exactly one end of the bracket to the midpoint mid, the
\* upper end if the page of the midpoint needs more than npages sheets and
\* the lower end otherwise, and halved the width up to the rounding of mid
MovedOneEnd(mid, sheets) ==
    /\ IF sheets > loop.npages
       THEN /\ loop'.b.max_area_mult = mid
            /\ loop'.b.min_area_mult = loop.b.min_area_mult
       ELSE /\ loop'.b.min_area_mult = mid
            /\ loop'.b.max_area_mult = loop.b.max_area_mult
    /\ RLt(Width(loop'.b), Width(loop.b))
    /\ RLe(Width(loop'.b), RAdd(RHalf(Width(loop.b)), MidpointUlp))

Halving ==
    loop'.pc = "while" =>
        LET Go(mid) == MovedOneEnd(mid, SheetsAt(mid))
        IN  Go(Midpoint(loop.b.min_area_mult, loop.b.max_area_mult))

BracketOrdered == RLe(loop.b.min_area_mult, loop.b.max_area_mult)

\* line 476: break
LoopExited == loop.pc = "done" /\ RLt(Width(loop.b), Tolerance)

\* C17: the bisection loop of page-budget mode with strategy complex always
\* terminates: the lower bound never exceeds the upper bound (n x printable
\* area / source area at the start), each iteration moves exactly one end of
\* the bracket to the midpoint (the upper end if complex_cover needs more
\* than n sheets there, otherwise the lower end) and leaves the other
\* unchanged, so that the width of the bracket halves with every iteration,
\* and the loop exits with a width below 0.001.
C17_BisectionTerminates ==
    /\ []BracketOrdered
    /\ [][Halving]_vars
    /\ <>LoopExited

\* a loop that has ended after iterations that moved the lower end and
\* iterations that moved the upper end
C17_Witness ==
    /\ loop # Absent
    /\ loop.pc = "done"
    /\ loop.b.steps >= 3
    /\ loop.b.moved
    /\ loop.b.max_area_mult #
           RDiv(RMul(Num(loop.npages), RMul(loop.printable[1], loop.printable[2])),
                RMul(loop.inpage[1], loop.inpage[2]))

\* ------------------------------------------------------------------------
\* Calls that compute_layout does not serve (C18, C19)
\* ------------------------------------------------------------------------
\* self.layout as line 358 leaves it when nothing else was stored
BaseLayout ==
    [output_pagesize |-> call.pagesize,
     border_top |-> call.border[1],
     border_right |-> call.border[2],
     border_bottom |-> call.border[3],
     border_left |-> call.border[4]]

\* the call failed: an exception, no tuple, no poster and no placements
Failed ==
    /\ result.raised # None
    /\ result.ret = NoSize
    /\ layout = BaseLayout

C19_UnknownTagsRejected ==
    (/\ call # Absent
     /\ \/ call.mode \notin {"size", "mult", "npages"}
        \/ call.strategy \notin {"simple", "complex"}) => Failed

\* ------------------------------------------------------------------------
\* The page budget with the simple strategy (C20)
\* ------------------------------------------------------------------------
\* the grids a x b of at most n sheets
GridsWithin(n) == {g \in (1..n) \X (1..n) : g[1] * g[2] <= n}

\* C20: in page-budget mode with strategy simple and n >= 1 the resolved
\* poster has the source aspect ratio, fits inside an a x b grid of printable
\* sheets (a * b <= n, in one of the two sheet orientations), and has the
\* largest area among all source-aspect posters that fit inside any such
\* grid with a * b <= n in either orientation.
C20_LargestInBudget ==
    (Returned("npages") /\ call.strategy = "simple" /\ call.npages >= 1) =>
        LET pw == layout.postersize[1]
            ph == layout.postersize[2]
        IN  /\ RMul(pw, InH) = RMul(ph, InW)
            /\ \E g \in GridsWithin(call.npages) :
                  \/ /\ RLe(pw, RMul(Num(g[1]), PrintableW))
                     /\ RLe(ph, RMul(Num(g[2]), PrintableH))
                  \/ /\ RLe(pw, RMul(Num(g[1]), PrintableH))
                     /\ RLe(ph, RMul(Num(g[2]), PrintableW))
            /\ \A g \in GridsWithin(call.npages) :
                  /\ RGe(Area(layout.postersize),
                         Area(LargestIn(RMul(Num(g[1]), PrintableW),
                                        RMul(Num(g[2]), PrintableH))))
                  /\ RGe(Area(layout.postersize),
                         Area(LargestIn(RMul(Num(g[1]), PrintableH),
                                        RMul(Num(g[2]), PrintableW))))

\* a budget of several sheets whose best poster lies on rotated sheets and is
\* larger than every poster on one sheet
C20_Witness ==
    /\ Returned("npages")
    /\ call.strategy = "simple"
    /\ call.npages > 2
    /\ ~layout.positions[1][3]
    /\ RGt(Area(layout.postersize), Area(LargestIn(PrintableW, PrintableH)))
    /\ RGt(Area(layout.postersize), Area(LargestIn(PrintableH, PrintableW)))

\* ------------------------------------------------------------------------
\* The sheet count of the returned triple (C21)
\* ------------------------------------------------------------------------
\* C21 as claimed: in every sizing mode the sheet count returned by
\* compute_layout equals the number of sheet placements in the layout it
\* computed, including page-budget mode when the best poster needs fewer
\* than n sheets.
C21_CountIsPlacements ==
    Produced => result.ret[3] = Len(layout.positions)

\* C21 as amended: in modes size and mult the returned sheet count is the
\* number of placements of the layout; in page-budget mode it is the budget
\* n that was passed in, and the layout has at most n placements, fewer
\* when the best poster does not use the whole budget.
C21_CountAsReturned ==
    /\ (Produced /\ call.mode \in {"size", "mult"}) =>
            result.ret[3] = Len(layout.positions)
    /\ (Produced /\ call.mode = "npages") =>
            /\ result.ret[3] = call.npages
            /\ Len(layout.positions) <= call.npages

\* a page-budget call whose layout leaves part of the budget unused
C21_Witness ==
    /\ Produced
    /\ call.mode = "npages"
    /\ Len(layout.positions) < call.npages
    /\ result.ret[3] = call.npages

\* ------------------------------------------------------------------------
\* The border option (C22), under SpecBorder
\* ------------------------------------------------------------------------
Colons == {i \in 1..Len(args) : args[i] = ":"}

\* the number of colon-separated values of the option
NumVals == Cardinality(Colons) + 1

\* the position of the j-th colon; 0 and Len(args) + 1 stand for the ends
ColonAt(j) ==
    IF j = 0 THEN 0
    ELSE IF j = NumVals THEN Len(args) + 1
    ELSE CHOOSE i \in Colons : Cardinality({c \in Colons : c < i}) = j - 1

\* the k-th value of the option
Component(k) == SubSeq(args, ColonAt(k - 1) + 1, ColonAt(k) - 1)

Val(k) == parse_num(Component(k))

\* a number below zero, with or without a unit
IsNegative(c) ==
    \E tail \in {Str(""), Str("pt"), Str("cm"), Str("mm"), Str("in")} :
        /\ EndsWith(c, tail)
        /\ LET f == Float(SubSeq(c, 1, Len(c) - Len(tail)))
           IN  f.ok /\ RLt(f.val, Zero)

Rejected == result.raised = "ArgumentTypeError" /\ result.value = NoSize

\* C22: parse_borderarg maps a colon-separated border option to (top, right,
\* bottom, left): one value sets all four sides; two values set top = bottom
\* to the first and right = left to the second; three values set top,
\* right = left, bottom in that order; four values set top, right, bottom,
\* left in that order; an empty string, an empty component, a negative
\* component or more than four values is rejected with ArgumentTypeError.
C22_BorderOption ==
    cpc = "done" /\ result # Absent /\ "value" \in DOMAIN result =>
        /\ (\/ args = <<>>
            \/ NumVals > 4
            \/ \E k \in 1..NumVals : Component(k) = <<>>
            \/ \E k \in 1..NumVals : IsNegative(Component(k))) => Rejected
        /\ (NumVals <= 4 /\ \A k \in 1..NumVals : Val(k).raised = None) =>
              /\ result.raised = None
              /\ result.value =
                    IF NumVals = 1
                    THEN <<Val(1).value, Val(1).value, Val(1).value, Val(1).value>>
                    ELSE IF NumVals = 2
                    THEN <<Val(1).value, Val(2).value, Val(1).value, Val(2).value>>
                    ELSE IF NumVals = 3
                    THEN <<Val(1).value, Val(2).value, Val(3).value, Val(2).value>>
                    ELSE <<Val(1).value, Val(2).value, Val(3).value, Val(4).value>>
        /\ result.raised = None =>
              NumVals <= 4 /\ \A k \in 1..NumVals : Val(k).raised = None

\* three different values, one of them with a unit, have been parsed
C22_Witness ==
    /\ cpc = "done"
    /\ args = Str("1:3cm:1")
    /\ result.raised = None
    /\ result.value = <<Num(1), Num(30), Num(1), Num(30)>>

\* ------------------------------------------------------------------------
\* The grid of simple_cover (C23), under SpecCover
\* ------------------------------------------------------------------------
\* the printable width and height of a sheet in the orientation chosen
ChosenW == IF simple.config[1][3] THEN args.x ELSE args.y
ChosenH == IF simple.config[1][3] THEN args.y ELSE args.x

\* C23: simple_cover emits one placement per grid cell in row-major order at
\* (column * sheet width, row * sheet height) in the chosen orientation, and
\* its covered size is pagesX * sheet width by pagesY * sheet height, which is
\* at least the poster in each dimension and exceeds it by less than one
\* sheet dimension.
C23_SimpleGridCells ==
    cpc = "done" =>
        LET pagesX == Ceil(RDiv(args.n, ChosenW))
            pagesY == Ceil(RDiv(args.m, ChosenH))
        IN  /\ Len(simple.config) = pagesX * pagesY
            /\ \A row \in 0..(pagesY - 1) : \A col \in 0..(pagesX - 1) :
                  simple.config[row * pagesX + col + 1] =
                      <<RMul(Num(col), ChosenW), RMul(Num(row), ChosenH),
                        simple.config[1][3]>>
            /\ simple.size = <<RMul(Num(pagesX), ChosenW), RMul(Num(pagesY), ChosenH)>>
            /\ RLe(args.n, simple.size[1])
            /\ RLe(args.m, simple.size[2])
            /\ RLt(RSub(simple.size[1], args.n), ChosenW)
            /\ RLt(RSub(simple.size[2], args.m), ChosenH)

\* a rotated grid of several rows and columns, not as many rows as columns,
\* that overhangs the poster
C23_Witness ==
    /\ cpc = "done"
    /\ ~simple.config[1][3]
    /\ Ceil(RDiv(args.n, ChosenW)) > 1
    /\ Ceil(RDiv(args.m, ChosenH)) > 1
    /\ Ceil(RDiv(args.n, ChosenW)) # Ceil(RDiv(args.m, ChosenH))
    /\ RLt(args.n, simple.size[1])
    /\ simple.config[2] = <<ChosenW, Zero, FALSE>>

\* ------------------------------------------------------------------------
\* The placements of complex_cover and the poster (C24), under SpecCover
\* ------------------------------------------------------------------------
\* the rectangle r lies in the box b
Within(r, b) ==
    /\ RLe(b.x0, r.x0)
    /\ RLe(b.y0, r.y0)
    /\ RLe(r.x1, b.x1)
    /\ RLe(r.y1, b.y1)

\* C24: every layout complex_cover computes lies completely inside the
\* poster: the printable rectangle of each returned placement, of a corner
\* block or of the central fill, is contained in [0,n] x [0,m], so that a
\* sheet including its border overhangs the poster edge by at most one
\* border width on each side.
C24_InsidePoster ==
    cpc = "done" =>
        \A r \in Rects(complex.config, args.x, args.y) : Within(r, Poster)

\* ------------------------------------------------------------------------
\* The sheet count of complex_cover under scaling (C25), under SpecCover
\* ------------------------------------------------------------------------
\* the widths of the larger posters of the aspect ratio of the poster
ScaledWidths ==
    {k \in (args.n[1] + 1)..MaxScaled :
        RLe(RDiv(RMul(args.m, Num(k)), args.n), Num(MaxScaled))}

\* the number of sheets of the poster of width k and of the same aspect ratio
ScaledCount(k) ==
    Len(complex_cover(Num(k), RDiv(RMul(args.m, Num(k)), args.n), args.x, args.y))

\* C25: the sheet count of complex_cover is monotone in the poster scale: for
\* a fixed printable sheet x by y and posters (n1, m1), (n2, m2) of the same
\* aspect ratio with n1 <= n2 and m1 <= m2,
\* len(complex_cover(n1, m1, x, y)) <= len(complex_cover(n2, m2, x, y)).
C25_MonotoneInScale ==
    cpc = "done" =>
        \A k \in ScaledWidths : Len(complex.config) <= ScaledCount(k)

\* corner blocks cover the poster, and a larger poster of the same aspect
\* ratio needs more sheets
C25_Witness ==
    /\ cpc = "done"
    /\ complex.tried > 0
    /\ complex.config # simple.config
    /\ \E k \in ScaledWidths : Len(complex.config) < ScaledCount(k)

\* ------------------------------------------------------------------------
\* The patterns skipped by symmetry (C26), under SpecCover
\* ------------------------------------------------------------------------
\* the number of patterns complex_cover has tried, from the last key built
PatternsTried == num_rotations(args.n, args.m, args.x, args.y)

\* C26: skipping orientation patterns by symmetry loses nothing:
\* complex_cover tries only the first pattern when the sheet is square
\* (x == y) and only the first three when the poster is square (n == m), and
\* in both cases the number of sheets it returns equals the number it would
\* return if all five patterns were enumerated.
C26_SymmetryLosesNothing ==
    cpc = "done" =>
        /\ args.x = args.y => PatternsTried = 1
        /\ (args.x # args.y /\ args.n = args.m) => PatternsTried = 3
        /\ (args.x # args.y /\ args.n # args.m) => PatternsTried = 5
        /\ \A i \in 1..Len(AllKeys) : AllKeys[i][1] < PatternsTried
        /\ (args.x = args.y \/ args.n = args.m) =>
              Len(complex.config) =
                  Len(complex_search_all(args.n, args.m, args.x, args.y).config)

\* a square poster on sheets that are not square: the three patterns tried
\* give corner blocks that beat the grid
C26_Witness ==
    /\ cpc = "done"
    /\ args.n = args.m
    /\ args.x # args.y
    /\ complex.tried > 0
    /\ Len(complex.config) < Len(simple.config)
    /\ \E i \in 1..Len(AllKeys) : AllKeys[i][1] = 2

\* ------------------------------------------------------------------------
\* The part of the source page that render puts on a sheet (C27)
\* ------------------------------------------------------------------------
\* the paper of the sheet placed at q, in the coordinates of the poster
PaperOnPoster(q) ==
    LET r == PaperRect(q)
    IN  <<RSub(r[1], layout.posterpos[1]), RSub(r[2], layout.posterpos[2]),
          RSub(r[3], layout.posterpos[1]), RSub(r[4], layout.posterpos[2])>>

Larger(a, b) == IF RLt(a, b) THEN b ELSE a
Smaller(a, b) == IF RLt(a, b) THEN a ELSE b

\* the intersection of the paper of the sheet placed at q with the poster
OnPoster(q) ==
    LET r == PaperOnPoster(q)
    IN  <<Larger(r[1], Zero), Larger(r[2], Zero),
          Smaller(r[3], layout.postersize[1]), Smaller(r[4], layout.postersize[2])>>

\* source width / poster width
SourceScale == RDiv(InW, layout.postersize[1])

\* render has written the pages of the layout
Rendered == outdoc # Absent /\ outdoc.raised = None /\ Produced

AsOnNewInstance ==
    LET Same(r) == layout = r.layout /\ result.raised = r.raised /\ result.ret = r.ret
    IN  Same(compute_layout(doc, call.mode, call.postersize, call.mult, call.npages,
                            call.pagesize, call.border, call.strategy))

\* the last call and the one before it have returned a layout
Succeeded(L) == L # Absent /\ "positions" \in DOMAIN L

C30_RenderNeedsLayout ==
    /\ (call # Absent /\ result.raised # None) => layout = before
    /\ outdoc # Absent =>
          IF Succeeded(layout)
          THEN outdoc.raised = None
          ELSE outdoc.raised = "LayoutNotComputedException"

\* ------------------------------------------------------------------------
\* When the complex strategy replaces the grid (C29)
\* ------------------------------------------------------------------------
\* the layout of the same call with strategy "simple"
WithSimple ==
    compute_layout(doc, call.mode, call.postersize, call.mult, call.npages,
                   call.pagesize, call.border, "simple").layout

====
